---- MODULE Spec2Model ----
(***************************************************************************)
(* A model of the orchestration core of capstone-agents-mvp:               *)
(*   - core/rate_limiter.py   RateLimiter.wait_if_needed                   *)
(*   - core/context.py        SharedContext                                *)
(*   - core/observability.py  ObservabilityPlugin                          *)
(*   - agents/coordinator.py  CoordinatorAgent.execute_analysis            *)
(*   - core/llm_client.py     GeminiClient.call                            *)
(*   - tools/__init__.py      ToolRegistry                                 *)
(*   - tools/anomaly_detector.py  detect_anomalies                         *)
(*   - tools/market_trends.py MarketTrendsTool.execute                     *)
(*   - agents/coordinator_llm.py  LLMCoordinatorAgent.execute_pipeline     *)
(* Each component has its own specification (SpecRL, SpecBurst, SpecCtx,   *)
(* SpecCoord, SpecGem);                                                    *)
(* the variables of the other components stay at their initial values.     *)
(***************************************************************************)
EXTENDS Integers, Sequences, FiniteSets, TLC

VARIABLES
    \* ---- RateLimiter (core/rate_limiter.py)
    clock,          \* time.time(), in whole seconds
    max_tokens,     \* self.max_tokens
    max_requests,   \* self.max_requests
    token_usage,    \* self.token_usage: deque of <<timestamp, tokens>>
    request_times,  \* self.request_times: deque of timestamps
    rl,             \* per coroutine: position and locals of wait_if_needed
    rl_started,     \* number of wait_if_needed calls begun so far
    rl_returned,    \* the calls that returned: <<return time, estimated_tokens>>
    \* ---- SharedContext (core/context.py)
    dt_now,         \* datetime.now() (isoformat strings order as the readings do)
    ctx_data,       \* self._data: sequence of <<key, value>>, in insertion order
    ctx_lock,       \* self._lock: the coroutine inside `async with`, or "free"
    ctx_created_at, \* self._created_at
    ctx_updated_at, \* self._updated_at
    cx,             \* per coroutine: position and arguments of its SharedContext call
    cx_calls,       \* number of SharedContext calls begun by the coroutines
    \* ---- ObservabilityPlugin (core/observability.py)
    obs,            \* self.traces and self.metrics
    \* ---- CoordinatorAgent.execute_analysis (agents/coordinator.py)
    co_pc,          \* position of the running execute_analysis, "idle" between runs
    co_run,         \* number of runs begun; the running one's trace_id
    co_file,        \* the file behind `filepath`
    co_loc,         \* locals: raw_data, iqr_result, zscore_result, anomalies, ...
    co_log,         \* per run: the tool, sub-agent and context-write calls it made
    co_ret,         \* per run: "running", "None", "report" or "raised"
    \* ---- GeminiClient.call (core/llm_client.py)
    gem,            \* position, locals and outcome of the current call
    \* ---- a single task using SharedContext: the calls it has completed
    cx_log,
    \* ---- ToolRegistry (tools/__init__.py)
    reg,            \* self.tools, the tools registered so far, the last return value
    \* ---- ObservabilityPlugin used on its own: the last result handed in or returned
    ob_ret,
    \* ---- detect_anomalies (tools/anomaly_detector.py)
    det,            \* the rows, the configured method, the result
    \* ---- MarketTrendsTool (tools/market_trends.py)
    mt,             \* request_count, cache, the requests sent, the running calls
    \* ---- LLMCoordinatorAgent (agents/coordinator_llm.py)
    lp              \* position in execute_pipeline, self.context, what each run did

rlVars == <<clock, max_tokens, max_requests, token_usage, request_times,
            rl, rl_started, rl_returned>>

ctxVars == <<dt_now, ctx_data, ctx_lock, ctx_created_at, ctx_updated_at, cx, cx_calls>>

coVars == <<obs, co_pc, co_run, co_file, co_loc, co_log, co_ret>>

gemVars == <<gem>>

toolVars == <<cx_log, reg, ob_ret, det, mt, lp>>

vars == <<rlVars, ctxVars, coVars, gemVars, toolVars>>

notRL == <<ctxVars, coVars, gemVars, toolVars>>
notCtx == <<rlVars, coVars, gemVars, toolVars>>
notCo == <<rlVars, gemVars, toolVars>>
notGem == <<rlVars, ctxVars, coVars, toolVars>>
notSeq == <<rlVars, coVars, gemVars, reg, ob_ret, det, mt, lp>>
notReg == <<rlVars, ctxVars, coVars, gemVars, cx_log, ob_ret, det, mt, lp>>
notObs == <<rlVars, ctxVars, co_pc, co_run, co_file, co_loc, co_log, co_ret, gemVars,
            cx_log, reg, det, mt, lp>>
notDet == <<rlVars, ctxVars, coVars, gemVars, cx_log, reg, ob_ret, mt, lp>>
notMt == <<rlVars, ctxVars, coVars, gemVars, cx_log, reg, ob_ret, det, lp>>
notLp == <<rlVars, ctxVars, coVars, gemVars, cx_log, reg, ob_ret, det, mt>>

(***************************************************************************)
(* Generic helpers                                                         *)
(***************************************************************************)
RECURSIVE SumSeq(_)
SumSeq(s) == IF s = <<>> THEN 0 ELSE Head(s) + SumSeq(Tail(s))

Max(a, b) == IF a >= b THEN a ELSE b

(***************************************************************************)
(* RateLimiter                                                             *)
(***************************************************************************)
Window == 60         \* the 60 of "now - 60" and "60 - (now - ...)"
DequeMaxLen == 60    \* deque(maxlen=60)
SleepMargin == 1     \* asyncio.sleep(wait_time + 1)

\* Bounds of the rate-limiter model
MaxCalls == 4        \* wait_if_needed calls per behaviour
MaxTime == 124       \* the clock stops advancing here
MaxCfgRequests == 2  \* max_requests_per_minute is drawn from 1..MaxCfgRequests
MaxCfgTokens == 3    \* max_tokens_per_minute is drawn from 2..MaxCfgTokens
MaxEstimate == 3     \* estimated_tokens is drawn from 1..MaxEstimate

Coros == {"c1", "c2"}
TickSteps == {Window \div 2, Window + SleepMargin}

\* deque.append on a deque with maxlen: a full deque drops its head
DequeAppend(q, x) ==
    IF Len(q) >= DequeMaxLen THEN Append(Tail(q), x) ELSE Append(q, x)

\* while self.token_usage and self.token_usage[0][0] < now - 60: popleft()
RECURSIVE EvictTokens(_, _)
EvictTokens(q, now) ==
    IF q # <<>> /\ Head(q)[1] < now - Window THEN EvictTokens(Tail(q), now) ELSE q

\* while self.request_times and self.request_times[0] < now - 60: popleft()
RECURSIVE EvictRequests(_, _)
EvictRequests(q, now) ==
    IF q # <<>> /\ Head(q) < now - Window THEN EvictRequests(Tail(q), now) ELSE q

\* current_tokens = sum(t[1] for t in self.token_usage)
CurrentTokens(q) == SumSeq([i \in 1..Len(q) |-> q[i][2]])

\* (mutant) the request ceiling may be passed by one
RequestQuotaHit_Above(cur_requests) == cur_requests > max_requests

\* the two conditions that send the caller to sleep
TokenQuotaHit(cur_tokens, est) == cur_tokens + est > max_tokens
RequestQuotaHit(cur_requests) == cur_requests >= max_requests

\* wait_time = 60 - (now - oldest)
WaitTime(now, oldest) == Window - (now - oldest)

\* asyncio.sleep(wait_time + 1) started at the current clock reading
WakeAt(wait) == clock + Max(0, wait + SleepMargin)

RlIdle == [pc |-> "idle", now |-> 0, est |-> 0, cur_req |-> 0, wake |-> 0]

\* lines 39-41: record with the `now` read at entry and return
Record(c, tq, rq, now, est) ==
    /\ token_usage' = DequeAppend(tq, <<now, est>>)
    /\ request_times' = DequeAppend(rq, now)
    /\ rl' = [rl EXCEPT ![c] = RlIdle]
    /\ rl_returned' = Append(rl_returned, <<clock, est>>)

\* lines 34-37 (reached at entry or after the token sleep), then 39-41
RequestCheck(c, tq, rq, now, est, cur_req) ==
    IF RequestQuotaHit(cur_req)
    THEN IF rq = <<>>
         THEN \* self.request_times[0] on an empty deque: IndexError
              /\ token_usage' = tq
              /\ request_times' = rq
              /\ rl' = [rl EXCEPT ![c] = [RlIdle EXCEPT !.pc = "raised"]]
              /\ UNCHANGED rl_returned
         ELSE /\ token_usage' = tq
              /\ request_times' = rq
              /\ rl' = [rl EXCEPT ![c] = [pc |-> "sleep_req", now |-> now, est |-> est,
                                          cur_req |-> cur_req,
                                          wake |-> WakeAt(WaitTime(now, Head(rq)))]]
              /\ UNCHANGED rl_returned
    ELSE Record(c, tq, rq, now, est)

\* lines 16-32: entry of wait_if_needed up to its first suspension
WaitEntry(c, est) ==
    /\ rl[c].pc = "idle"
    /\ rl_started' = rl_started + 1
    /\ LET now == clock
           tq == EvictTokens(token_usage, now)
           rq == EvictRequests(request_times, now)
           cur_tokens == CurrentTokens(tq)
           cur_req == Len(rq)
       IN IF TokenQuotaHit(cur_tokens, est)
          THEN IF tq = <<>>
               THEN \* self.token_usage[0][0] on an empty deque: IndexError
                    /\ token_usage' = tq
                    /\ request_times' = rq
                    /\ rl' = [rl EXCEPT ![c] = [RlIdle EXCEPT !.pc = "raised"]]
                    /\ UNCHANGED rl_returned
               ELSE /\ token_usage' = tq
                    /\ request_times' = rq
                    /\ rl' = [rl EXCEPT ![c] = [pc |-> "sleep_tok", now |-> now, est |-> est,
                                                cur_req |-> cur_req,
                                                wake |-> WakeAt(WaitTime(now, Head(tq)[1]))]]
                    /\ UNCHANGED rl_returned
          ELSE RequestCheck(c, tq, rq, now, est, cur_req)
    /\ UNCHANGED <<clock, max_tokens, max_requests>>
    /\ UNCHANGED notRL

\* a wait_if_needed call by coroutine c
WaitBegin(c, est) ==
    /\ rl_started < MaxCalls
    /\ WaitEntry(c, est)

\* the token sleep is over: lines 34-41 with the locals computed at entry
WakeTok(c) ==
    /\ rl[c].pc = "sleep_tok"
    /\ clock >= rl[c].wake
    /\ RequestCheck(c, token_usage, request_times, rl[c].now, rl[c].est, rl[c].cur_req)
    /\ UNCHANGED <<clock, max_tokens, max_requests, rl_started>>
    /\ UNCHANGED notRL

\* the request sleep is over: lines 39-41
WakeReq(c) ==
    /\ rl[c].pc = "sleep_req"
    /\ clock >= rl[c].wake
    /\ Record(c, token_usage, request_times, rl[c].now, rl[c].est)
    /\ UNCHANGED <<clock, max_tokens, max_requests, rl_started>>
    /\ UNCHANGED notRL

\* time passes
Tick(d) ==
    /\ clock + d <= MaxTime
    /\ clock' = clock + d
    /\ UNCHANGED <<max_tokens, max_requests, token_usage, request_times,
                   rl, rl_started, rl_returned>>
    /\ UNCHANGED notRL

\* RateLimiter.__init__ with the given ceilings
RLStart(tokens_per_minute, requests_per_minute) ==
    /\ clock = 0
    /\ max_tokens = tokens_per_minute
    /\ max_requests = requests_per_minute
    /\ token_usage = <<>>
    /\ request_times = <<>>
    /\ rl = [c \in Coros |-> RlIdle]
    /\ rl_started = 0
    /\ rl_returned = <<>>

\* RateLimiter.__init__ defaults and the default of wait_if_needed
DefaultMaxTokens == 900000
DefaultMaxRequests == 15
DefaultEstimate == 5000

\* Bound of the burst scenario
BurstLatest == 2     \* the calls of a burst are issued while the clock reads at most this

BurstCalls == DefaultMaxRequests + 1

\* one caller issues wait_if_needed calls one after the other
BurstCall ==
    /\ rl_started < BurstCalls
    /\ clock <= BurstLatest
    /\ WaitEntry("c1", DefaultEstimate)

\* one second passes, until every sleep of the burst is over
BurstTick ==
    /\ clock <= BurstLatest + Window + SleepMargin
    /\ Tick(1)

(***************************************************************************)
(* SharedContext                                                           *)
(***************************************************************************)
\* Bounds of the shared-context model
MaxCtxCalls == 3     \* SharedContext calls per behaviour
MaxWall == 1         \* datetime.now() stops advancing here

\* A stored value is a dict (its items a set of <<field, number>>) or not a dict.
Dict(items) == [isdict |-> TRUE, items |-> items]
EmptyDict == Dict({})
NotADict == [isdict |-> FALSE, items |-> {<<"list", 12>>}]
NoneVal == [isdict |-> FALSE, items |-> {}]

CtxKeys == {"k1", "k2"}
CtxArgs == {Dict({<<"a", 1>>}), Dict({<<"b", 2>>}), NotADict}
CtxOps == {"set", "get", "update", "clear", "list_keys", "to_dict"}

Fields(v) == {it[1] : it \in v.items}

\* (mutant) the stored dict is replaced by the argument
DictUpdate_Replace(d, partial) == Dict(partial.items)

\* dict.update(partial): the entries of partial override those of d
DictUpdate(d, partial) ==
    Dict({it \in d.items : it[1] \notin Fields(partial)} \cup partial.items)

\* key in self._data
HasKey(data, k) == \E i \in 1..Len(data) : data[i][1] = k

\* self._data.get(key, default)
DataGet(data, k, default) ==
    IF HasKey(data, k)
    THEN data[CHOOSE i \in 1..Len(data) : data[i][1] = k][2]
    ELSE default

\* self._data[key] = value: a present key keeps its place, a new key goes last
DataPut(data, k, v) ==
    IF HasKey(data, k)
    THEN [i \in 1..Len(data) |-> IF data[i][1] = k THEN <<k, v>> ELSE data[i]]
    ELSE Append(data, <<k, v>>)

\* list(self._data.keys())
DataKeys(data) == [i \in 1..Len(data) |-> data[i][1]]

CxIdle == [pc |-> "idle", op |-> "none", key |-> "none", val |-> NoneVal,
           result |-> "none", ret |-> NoneVal,
           pre_data |-> <<>>, pre_updated |-> 0]

\* a coroutine calls one of the methods: it reaches `async with self._lock`
CtxCall(c, op, k, v) ==
    /\ cx[c].pc = "idle"
    /\ cx_calls < MaxCtxCalls
    /\ cx_calls' = cx_calls + 1
    /\ cx' = [cx EXCEPT ![c] = [CxIdle EXCEPT !.pc = "acquire", !.op = op,
                                  !.key = IF op \in {"set", "get", "update"} THEN k ELSE "none",
                                  !.val = IF op \in {"set", "get", "update"} THEN v ELSE NoneVal]]
    /\ UNCHANGED <<dt_now, ctx_data, ctx_lock, ctx_created_at, ctx_updated_at>>
    /\ UNCHANGED notCtx

\* (mutant) the lock is taken whether or not it is held
LockFree_Ignored == TRUE

\* asyncio.Lock.acquire: only a free lock is taken
LockFree == ctx_lock = "free"

\* `async with self._lock:` entered
CtxAcquire(c) ==
    /\ cx[c].pc = "acquire"
    /\ LockFree
    /\ ctx_lock' = c
    /\ cx' = [cx EXCEPT ![c].pc = "cs", ![c].pre_data = ctx_data,
                        ![c].pre_updated = ctx_updated_at]
    /\ UNCHANGED <<dt_now, ctx_data, ctx_created_at, ctx_updated_at, cx_calls>>
    /\ UNCHANGED notCtx

\* (mutant) set stores the value but leaves the timestamp alone
SetBody_NoStamp(k, v) ==
    /\ ctx_data' = DataPut(ctx_data, k, v)
    /\ UNCHANGED ctx_updated_at

\* set, lines 46-47
SetBody(k, v) ==
    /\ ctx_data' = DataPut(ctx_data, k, v)
    /\ ctx_updated_at' = dt_now

\* update, lines 72-73: an absent key is first given an empty dict
UpdateInit(k) ==
    /\ ctx_data' = IF HasKey(ctx_data, k) THEN ctx_data ELSE DataPut(ctx_data, k, EmptyDict)
    /\ UNCHANGED ctx_updated_at

\* clear, lines 84-85
ClearBody ==
    /\ ctx_data' = <<>>
    /\ ctx_updated_at' = dt_now

\* (mutant) the caller's default is dropped
GetValue_NoDefault(data, k, default) == DataGet(data, k, NoneVal)

\* get, line 61: self._data.get(key, default)
GetValue(data, k, default) == DataGet(data, k, default)

\* the body of the method, inside the lock (for update: its first statement)
CtxBody(c) ==
    /\ cx[c].pc = "cs"
    /\ LET op == cx[c].op
           k == cx[c].key
       IN CASE op = "set" ->
                 /\ SetBody(k, cx[c].val)
                 /\ cx' = [cx EXCEPT ![c].pc = "exit", ![c].result = "ok"]
            [] op = "get" ->
                 /\ cx' = [cx EXCEPT ![c].pc = "exit", ![c].result = "value",
                                     ![c].ret = GetValue(ctx_data, k, cx[c].val)]
                 /\ UNCHANGED <<ctx_data, ctx_updated_at>>
            [] op = "update" ->
                 /\ UpdateInit(k)
                 /\ cx' = [cx EXCEPT ![c].pc = "cs_merge"]
            [] op = "clear" ->
                 /\ ClearBody
                 /\ cx' = [cx EXCEPT ![c].pc = "exit", ![c].result = "ok"]
            [] OTHER ->   \* list_keys, to_dict: reads only
                 /\ cx' = [cx EXCEPT ![c].pc = "exit", ![c].result = "ok"]
                 /\ UNCHANGED <<ctx_data, ctx_updated_at>>
    /\ UNCHANGED <<dt_now, ctx_lock, ctx_created_at, cx_calls>>
    /\ UNCHANGED notCtx

\* update, lines 75-79: merge when both are dicts, else raise ValueError
CtxUpdateMerge(c) ==
    /\ cx[c].pc = "cs_merge"
    /\ LET k == cx[c].key
           cur == DataGet(ctx_data, k, NoneVal)
           partial == cx[c].val
       IN IF cur.isdict /\ partial.isdict
          THEN /\ ctx_data' = DataPut(ctx_data, k, DictUpdate(cur, partial))
               /\ ctx_updated_at' = dt_now
               /\ cx' = [cx EXCEPT ![c].pc = "exit", ![c].result = "ok"]
          ELSE /\ cx' = [cx EXCEPT ![c].pc = "exit", ![c].result = "ValueError"]
               /\ UNCHANGED <<ctx_data, ctx_updated_at>>
    /\ UNCHANGED <<dt_now, ctx_lock, ctx_created_at, cx_calls>>
    /\ UNCHANGED notCtx

\* leaving `async with`: the lock is released, the call returns or raises
CtxRelease(c) ==
    /\ cx[c].pc = "exit"
    /\ ctx_lock' = "free"
    /\ cx' = [cx EXCEPT ![c] = CxIdle]
    /\ UNCHANGED <<dt_now, ctx_data, ctx_created_at, ctx_updated_at, cx_calls>>
    /\ UNCHANGED notCtx

\* the clock reading of datetime.now() advances
CtxTick ==
    /\ dt_now < MaxWall
    /\ dt_now' = dt_now + 1
    /\ UNCHANGED <<ctx_data, ctx_lock, ctx_created_at, ctx_updated_at, cx, cx_calls>>
    /\ UNCHANGED notCtx

\* SharedContext.__init__
CtxStart ==
    /\ dt_now = 0
    /\ ctx_data = <<>>
    /\ ctx_lock = "free"
    /\ ctx_created_at = 0
    /\ ctx_updated_at = 0
    /\ cx = [c \in Coros |-> CxIdle]
    /\ cx_calls = 0

(***************************************************************************)
(* ObservabilityPlugin                                                     *)
(***************************************************************************)
Agents == {"Coordinator", "AnalystAgent", "RecommendationAgent"}
Tools == {"load_csv_data", "detect_anomalies", "generate_report_html"}

\* max_severity, ordered
LOW == 1
MEDIUM == 2
HIGH == 3

StartSpan(agent) == <<agent, "start">>   \* f"{agent_name}_start"
EndSpan(agent) == <<agent, "end">>       \* f"{agent_name}_end"

\* ObservabilityPlugin.__init__
ObsInit ==
    [traces |-> <<>>,
     agent_calls |-> [a \in Agents |-> 0],
     tool_calls |-> [t \in Tools |-> 0],
     errors |-> <<>>,
     latencies |-> 0,
     anomalies_found |-> 0,
     recommendations_generated |-> 0,
     max_severity |-> LOW]

\* a result object: what getattr(result, "data", None) yields
NoData == [has_data |-> FALSE, data |-> {}]
WithData(items) == [has_data |-> items # {}, data |-> items]

\* data.get(field, default) on a dict given as a set of <<field, value>>
ItemGet(items, field, default) ==
    IF \E it \in items : it[1] = field
    THEN (CHOOSE it \in items : it[1] = field)[2]
    ELSE default

\* before_agent_callback, lines 36-49
BeforeAgentCb(o, agent, tid) ==
    LET tr == IF tid \in DOMAIN o.traces THEN o.traces ELSE o.traces @@ (tid :> <<>>)
    IN [o EXCEPT !.traces = [tr EXCEPT ![tid] = Append(tr[tid], StartSpan(agent))],
                 !.agent_calls[agent] = @ + 1]

\* (mutant) the trace is given a new span list holding the end span only
AfterAgentCb_FreshSpans(o, agent, tid, result) ==
    LET tr == IF tid \in DOMAIN o.traces THEN o.traces ELSE o.traces @@ (tid :> <<>>)
    IN [o EXCEPT !.traces = [tr EXCEPT ![tid] = <<EndSpan(agent)>>],
                 !.latencies = @ + 1]

\* (mutant) the anomaly count of the result is added to the running count
AfterAgentCb_Accumulate(o, agent, tid, result) ==
    LET tr == IF tid \in DOMAIN o.traces THEN o.traces ELSE o.traces @@ (tid :> <<>>)
        o1 == [o EXCEPT !.traces = [tr EXCEPT ![tid] = Append(tr[tid], EndSpan(agent))],
                        !.latencies = @ + 1]
    IN IF result.has_data
       THEN [o1 EXCEPT
               !.anomalies_found = @ + ItemGet(result.data, "anomalies_found", 0),
               !.recommendations_generated = ItemGet(result.data, "recommendations_generated", @),
               !.max_severity = ItemGet(result.data, "max_severity", @)]
       ELSE o1

\* after_agent_callback, lines 51-65
AfterAgentCb(o, agent, tid, result) ==
    LET tr == IF tid \in DOMAIN o.traces THEN o.traces ELSE o.traces @@ (tid :> <<>>)
        o1 == [o EXCEPT !.traces = [tr EXCEPT ![tid] = Append(tr[tid], EndSpan(agent))],
                        !.latencies = @ + 1]
    IN IF result.has_data
       THEN [o1 EXCEPT
               !.anomalies_found = ItemGet(result.data, "anomalies_found", @),
               !.recommendations_generated = ItemGet(result.data, "recommendations_generated", @),
               !.max_severity = ItemGet(result.data, "max_severity", @)]
       ELSE o1

\* (mutant) the counter of the tool is set to 1 whatever it was
BeforeToolCb_SetOne(o, tool) == [o EXCEPT !.tool_calls[tool] = 1]

\* before_tool_callback, lines 67-69
BeforeToolCb(o, tool) == [o EXCEPT !.tool_calls[tool] = @ + 1]

\* after_tool_callback, lines 71-73
AfterToolCb(o, tool) == o

\* (mutant) the error is entered twice
OnErrorCb_Twice(o, tid) == [o EXCEPT !.errors = Append(Append(@, tid), tid)]

\* on_error_callback, lines 75-81: the entry keeps the context's trace_id
OnErrorCb(o, tid) == [o EXCEPT !.errors = Append(@, tid)]

\* sum(d.values())
RECURSIVE SumValues(_)
SumValues(f) ==
    IF DOMAIN f = {} THEN 0
    ELSE LET k == CHOOSE x \in DOMAIN f : TRUE
         IN f[k] + SumValues([x \in DOMAIN f \ {k} |-> f[x]])

\* get_metrics_summary, line 94: 1.0 - (error_count / max(1, total_agent_calls)),
\* as the fraction num / den
SuccessRate(o) ==
    LET den == Max(1, SumValues(o.agent_calls))
    IN [num |-> den - Len(o.errors), den |-> den]

\* get_metrics_summary, lines 87-104 (the counts and the domain metrics)
MetricsSummary(o) ==
    [total_agent_calls |-> SumValues(o.agent_calls),
     total_tool_calls |-> SumValues(o.tool_calls),
     error_count |-> Len(o.errors),
     anomalies_found |-> o.anomalies_found,
     recommendations_generated |-> o.recommendations_generated,
     max_severity |-> o.max_severity]

(***************************************************************************)
(* CoordinatorAgent.execute_analysis with AnalystAgent, RecommendationAgent *)
(* and ReportGeneratorTool.  DataLoaderTool, AnomalyDetectorTool and       *)
(* ActionLoggerTool are tools whose classes are not part of the sources:   *)
(* they return a ToolResult and never raise (spec section 3); the logger   *)
(* has no effect on the state modelled here.                               *)
(***************************************************************************)
\* Bound of the coordinator model
MaxRuns == 2         \* execute_analysis runs per behaviour

\* The files `filepath` may name: whether the loader can read and validate
\* them, whether every revenue cell is numeric, and the revenue column.
Files ==
    { [loadable |-> FALSE, numeric |-> TRUE,  revenues |-> <<>>],
      [loadable |-> TRUE,  numeric |-> FALSE, revenues |-> <<10>>],
      [loadable |-> TRUE,  numeric |-> TRUE,  revenues |-> <<10, 10, 10, 40>>],
      [loadable |-> TRUE,  numeric |-> TRUE,  revenues |-> <<-2, -2, -2, 6>>] }

Range(f) == {f[i] : i \in DOMAIN f}

\* a value stored by the pipeline: raw_data and detected_anomalies are lists,
\* analysis_result and recommendation_result are dicts
Payload(isdict, x) == [isdict |-> isdict, items |-> {}, payload |-> x]

\* DataLoaderTool.execute(filepath, validate=True)
LoadResult(f) == [success |-> f.loadable, data |-> f.revenues]

\* AnomalyDetectorTool.execute(data, method, threshold): a failure, or some of the values
DetectOutcomes(revs) ==
    {[success |-> FALSE, anomalies |-> {}]}
        \cup {[success |-> TRUE, anomalies |-> A] : A \in SUBSET Range(revs)}

\* (mutant) a failed load is not noticed
LoadFailed_Never(res) == FALSE

\* coordinator.py line 72: if not load_result.success
LoadFailed(res) == ~res.success

\* (mutant) only the values both methods report
UnionAnomalies_Intersection(iqr, z) ==
    (IF iqr.success THEN iqr.anomalies ELSE {}) \cap (IF z.success THEN z.anomalies ELSE {})

\* coordinator.py lines 106-112: the union of the anomalies of the successful methods
UnionAnomalies(iqr, z) ==
    (IF iqr.success THEN iqr.anomalies ELSE {}) \cup (IF z.success THEN z.anomalies ELSE {})

\* (mutant) the mean is divided by even when there is no anomaly to describe
AnalystRaises_NoEarlyReturn(revs, anoms) == SumSeq(revs) = 0

\* analyst.py lines 148, 159: deviation_pct divides by the average revenue
AnalystRaises(revs, anoms) == anoms # {} /\ SumSeq(revs) = 0

Abs(x) == IF x >= 0 THEN x ELSE -x

\* analyst.py lines 150-183: the pattern of one anomalous value;
\* deviation_pct = num / den with num = (a*n - sum)*100, den = sum
PatternOf(a, revs) ==
    LET n == Len(revs)
        den == SumSeq(revs)
        num == (a * n - den) * 100
        above20 == IF den > 0 THEN num > 20 * den ELSE num < 20 * den
        below20 == IF den > 0 THEN num < -20 * den ELSE num > -20 * den
        beyond10 == Abs(num) > 10 * Abs(den)
    IN IF above20 THEN [pattern_type |-> "spike", severity |-> HIGH, value |-> a]
       ELSE IF below20 THEN [pattern_type |-> "drop", severity |-> HIGH, value |-> a]
       ELSE IF beyond10 THEN [pattern_type |-> "trend", severity |-> MEDIUM, value |-> a]
       ELSE [pattern_type |-> "fluctuation", severity |-> LOW, value |-> a]

\* the anomalies as a list (the order Python gives a set of floats is not modelled)
RECURSIVE SortedSeq(_)
SortedSeq(S) ==
    IF S = {} THEN <<>>
    ELSE LET m == CHOOSE x \in S : \A y \in S : x <= y
         IN <<m>> \o SortedSeq(S \ {m})

\* analyst.py lines 133-185: _extract_patterns
ExtractPatterns(revs, anoms) ==
    LET l == SortedSeq(anoms) IN [i \in 1..Len(l) |-> PatternOf(l[i], revs)]

\* analyst.py lines 254-266: _assess_severity
AssessSeverity(patterns) ==
    LET high_count == Cardinality({i \in 1..Len(patterns) : patterns[i].severity = HIGH})
    IN IF patterns = <<>> THEN LOW
       ELSE IF high_count >= 2 THEN HIGH
       ELSE IF high_count = 1 THEN MEDIUM
       ELSE LOW

\* analyst.py lines 112-118: the dict stored under analysis_result
AnalysisDict(revs, anoms) ==
    LET patterns == ExtractPatterns(revs, anoms)
    IN [patterns |-> patterns, severity |-> AssessSeverity(patterns)]

\* recommendation.py lines 145-198: the action items of the patterns, in order
RECURSIVE PatternActions(_)
PatternActions(patterns) ==
    IF patterns = <<>> THEN <<>>
    ELSE LET t == Head(patterns).pattern_type
             items == IF t = "spike"
                      THEN << [priority |-> 2, title |-> "Investigate Revenue Spike Root Cause"],
                              [priority |-> 1, title |-> "Capitalize on Spike Drivers"] >>
                      ELSE IF t = "drop"
                      THEN << [priority |-> 1, title |-> "Emergency Revenue Recovery Plan"],
                              [priority |-> 2, title |-> "Customer Retention Analysis"] >>
                      ELSE <<>>
         IN items \o PatternActions(Tail(patterns))

\* recommendations.sort(key=lambda x: x.priority): a stable sort, priorities 1..3
SortByPriority(l) ==
    LET P1(x) == x.priority = 1
        P2(x) == x.priority = 2
        P3(x) == x.priority = 3
    IN SelectSeq(l, P1) \o SelectSeq(l, P2) \o SelectSeq(l, P3)

\* recommendation.py lines 134-226: _generate_base_recommendations
BaseRecommendations(analysis) ==
    SortByPriority(
        PatternActions(analysis.patterns)
        \o (IF analysis.severity = HIGH
            THEN << [priority |-> 1, title |-> "Executive Review and Decision"] >>
            ELSE <<>>)
        \o << [priority |-> 3, title |-> "Enhanced Monitoring System"] >>)

\* recommendation.py lines 113-119: the dict stored under recommendation_result
RecommendationDict(analysis) == [action_items |-> BaseRecommendations(analysis)]

TopFive == 5   \* action_items[:5]

DefaultIssue == [description |-> <<"No significant anomalies detected", 0>>, severity |-> LOW]
DefaultRecommendation == [priority |-> 0, title |-> "Continue monitoring business metrics"]

\* (mutant) the lists go into the report as they are
ReportData_NoDefaults(analysis, rec) ==
    [issues |-> [i \in 1..Len(analysis.patterns) |->
                    [description |-> <<analysis.patterns[i].pattern_type,
                                       analysis.patterns[i].value>>,
                     severity |-> analysis.patterns[i].severity]],
     recommendations |-> rec.action_items]

\* coordinator.py lines 137-158: the report payload
ReportData(analysis, rec) ==
    LET issues == [i \in 1..Len(analysis.patterns) |->
                      [description |-> <<analysis.patterns[i].pattern_type,
                                         analysis.patterns[i].value>>,
                       severity |-> analysis.patterns[i].severity]]
        recs == SubSeq(rec.action_items, 1,
                       IF Len(rec.action_items) < TopFive THEN Len(rec.action_items) ELSE TopFive)
    IN [issues |-> IF issues # <<>> THEN issues ELSE <<DefaultIssue>>,
        recommendations |-> IF recs # <<>> THEN recs ELSE <<DefaultRecommendation>>]

\* report_generator.py lines 61-76: the result object of generate_report_html
ReportResult(ok) ==
    IF ok THEN WithData({<<"html", 1>>, <<"file_saved", 1>>, <<"file_path", 1>>})
    ELSE NoData

NoResult == [success |-> FALSE, anomalies |-> {}]
NoAnalysis == [patterns |-> <<>>, severity |-> LOW]
NoRecommendation == [action_items |-> <<>>]

LocInit ==
    [raw_data |-> <<>>, iqr_result |-> NoResult, zscore_result |-> NoResult,
     anomalies |-> {}, analysis_dict |-> NoAnalysis, recommendation_dict |-> NoRecommendation,
     report_data |-> [issues |-> <<>>, recommendations |-> <<>>]]

Call(kind, name, ok) == [kind |-> kind, name |-> name, ok |-> ok]

\* (mutant) after the IQR detection the pipeline goes straight to the analyst
NextPhase_SkipZscore(pc) ==
    CASE pc = "load" -> "detect_iqr"
      [] pc = "detect_iqr" -> "analyze"
      [] pc = "detect_zscore" -> "analyze"
      [] pc = "analyze" -> "recommend"
      [] pc = "recommend" -> "report"
      [] OTHER -> "idle"

\* coordinator.py lines 66-187: the statements of the try block, in order
NextPhase(pc) ==
    CASE pc = "load" -> "detect_iqr"
      [] pc = "detect_iqr" -> "detect_zscore"
      [] pc = "detect_zscore" -> "analyze"
      [] pc = "analyze" -> "recommend"
      [] pc = "recommend" -> "report"
      [] OTHER -> "idle"

\* (mutant) the handler records the error and appends no Coordinator_end
ExceptionHandler_NoEnd(o, tid) == OnErrorCb(o, tid)

\* coordinator.py lines 189-192: except Exception: on_error, Coordinator_end, raise
ExceptionHandler(o, tid) == AfterAgentCb(OnErrorCb(o, tid), "Coordinator", tid, NoData)

\* SharedContext.set as the pipeline's single task calls it: the lock is free,
\* taken and released within the call
ContextSet(k, v) ==
    /\ LockFree
    /\ SetBody(k, v)
    /\ UNCHANGED <<dt_now, ctx_lock, ctx_created_at, cx, cx_calls>>

CtxUntouched == UNCHANGED ctxVars

\* the run ends: return None, return report_result, or raise
EndRun(ret) ==
    /\ co_pc' = "idle"
    /\ co_ret' = [co_ret EXCEPT ![co_run] = ret]

Logged(calls) == co_log' = [co_log EXCEPT ![co_run] = @ \o calls]

\* coordinator.py lines 52-63: trace_id, Coordinator_start, the start_analysis log line
StartRun(f) ==
    /\ co_pc = "idle"
    /\ co_run < MaxRuns
    /\ co_run' = co_run + 1
    /\ co_file' = f
    /\ co_loc' = LocInit
    /\ obs' = BeforeAgentCb(obs, "Coordinator", co_run + 1)
    /\ co_log' = co_log @@ ((co_run + 1) :> <<>>)
    /\ co_ret' = co_ret @@ ((co_run + 1) :> "running")
    /\ co_pc' = "load"
    /\ CtxUntouched
    /\ UNCHANGED notCo

\* coordinator.py lines 66-84: step 1, load data
LoadData ==
    /\ co_pc = "load"
    /\ LET res == LoadResult(co_file)
           o1 == AfterToolCb(BeforeToolCb(obs, "load_csv_data"), "load_csv_data")
       IN IF LoadFailed(res)
          THEN /\ obs' = AfterAgentCb(OnErrorCb(o1, co_run), "Coordinator", co_run, NoData)
               /\ Logged(<<Call("tool", "load_csv_data", res.success)>>)
               /\ EndRun("None")
               /\ CtxUntouched
               /\ UNCHANGED co_loc
          ELSE /\ obs' = o1
               /\ co_loc' = [co_loc EXCEPT !.raw_data = res.data]
               /\ ContextSet("raw_data", Payload(FALSE, res.data))
               /\ Logged(<<Call("tool", "load_csv_data", res.success),
                           Call("ctx", "raw_data", TRUE)>>)
               /\ co_pc' = NextPhase(co_pc)
               /\ UNCHANGED co_ret
    /\ UNCHANGED <<co_run, co_file>>
    /\ UNCHANGED notCo

\* coordinator.py lines 86-96: the revenue column as floats, then the IQR detection
DetectIqr ==
    /\ co_pc = "detect_iqr"
    /\ IF ~co_file.numeric
       THEN \* float(row['revenue']) raises ValueError
            /\ obs' = ExceptionHandler(obs, co_run)
            /\ EndRun("raised")
            /\ UNCHANGED <<co_loc, co_log>>
       ELSE \E res \in DetectOutcomes(co_loc.raw_data) :
            /\ obs' = AfterToolCb(BeforeToolCb(obs, "detect_anomalies"), "detect_anomalies")
            /\ co_loc' = [co_loc EXCEPT !.iqr_result = res]
            /\ Logged(<<Call("tool", "detect_anomalies:iqr", res.success)>>)
            /\ co_pc' = NextPhase(co_pc)
            /\ UNCHANGED co_ret
    /\ CtxUntouched
    /\ UNCHANGED <<co_run, co_file>>
    /\ UNCHANGED notCo

\* coordinator.py lines 98-123: the Z-score detection, the union, detected_anomalies
DetectZscore ==
    /\ co_pc = "detect_zscore"
    /\ \E res \in DetectOutcomes(co_loc.raw_data) :
         LET anomalies == UnionAnomalies(co_loc.iqr_result, res)
         IN /\ obs' = AfterToolCb(BeforeToolCb(obs, "detect_anomalies"), "detect_anomalies")
            /\ co_loc' = [co_loc EXCEPT !.zscore_result = res, !.anomalies = anomalies]
            /\ ContextSet("detected_anomalies", Payload(FALSE, anomalies))
            /\ Logged(<<Call("tool", "detect_anomalies:zscore", res.success),
                        Call("ctx", "detected_anomalies", TRUE)>>)
    /\ co_pc' = NextPhase(co_pc)
    /\ UNCHANGED <<co_run, co_file, co_ret>>
    /\ UNCHANGED notCo

\* coordinator.py lines 125-129 with AnalystAgent.analyze: step 3
Analyze ==
    /\ co_pc = "analyze"
    /\ LET o1 == BeforeAgentCb(obs, "AnalystAgent", co_run)
       IN IF AnalystRaises(co_loc.raw_data, co_loc.anomalies)
          THEN \* ZeroDivisionError inside _extract_patterns
               /\ obs' = ExceptionHandler(o1, co_run)
               /\ Logged(<<Call("agent", "AnalystAgent", FALSE)>>)
               /\ EndRun("raised")
               /\ CtxUntouched
               /\ UNCHANGED co_loc
          ELSE LET analysis == AnalysisDict(co_loc.raw_data, co_loc.anomalies)
               IN /\ ContextSet("analysis_result", Payload(TRUE, analysis))
                  /\ obs' = AfterAgentCb(o1, "AnalystAgent", co_run, NoData)
                  /\ co_loc' = [co_loc EXCEPT !.analysis_dict = analysis]
                  /\ Logged(<<Call("agent", "AnalystAgent", TRUE),
                              Call("ctx", "analysis_result", TRUE)>>)
                  /\ co_pc' = NextPhase(co_pc)
                  /\ UNCHANGED co_ret
    /\ UNCHANGED <<co_run, co_file>>
    /\ UNCHANGED notCo

\* coordinator.py lines 131-135 with RecommendationAgent.generate_recommendations: step 4
Recommend ==
    /\ co_pc = "recommend"
    /\ LET o1 == BeforeAgentCb(obs, "RecommendationAgent", co_run)
           rec == RecommendationDict(co_loc.analysis_dict)
       IN /\ ContextSet("recommendation_result", Payload(TRUE, rec))
          /\ obs' = AfterAgentCb(o1, "RecommendationAgent", co_run, NoData)
          /\ co_loc' = [co_loc EXCEPT !.recommendation_dict = rec]
          /\ Logged(<<Call("agent", "RecommendationAgent", TRUE),
                      Call("ctx", "recommendation_result", TRUE)>>)
    /\ co_pc' = NextPhase(co_pc)
    /\ UNCHANGED <<co_run, co_file, co_ret>>
    /\ UNCHANGED notCo

\* coordinator.py lines 137-187: steps 5 and 6, the report, Coordinator_end, the return
Report ==
    /\ co_pc = "report"
    /\ \E ok \in BOOLEAN :
         LET o1 == AfterToolCb(BeforeToolCb(obs, "generate_report_html"), "generate_report_html")
         IN /\ obs' = AfterAgentCb(o1, "Coordinator", co_run, ReportResult(ok))
            /\ co_loc' = [co_loc EXCEPT !.report_data =
                              ReportData(co_loc.analysis_dict, co_loc.recommendation_dict)]
            /\ Logged(<<Call("tool", "generate_report_html", ok)>>)
            /\ EndRun(IF ok THEN "report" ELSE "None")
    /\ CtxUntouched
    /\ UNCHANGED <<co_run, co_file>>
    /\ UNCHANGED notCo

\* CoordinatorAgent.__init__, lines 28-48: a new coordinator has a new
\* SharedContext and a new ObservabilityPlugin
NewCoordinator ==
    /\ co_pc = "idle"
    /\ co_run > 0
    /\ obs' = ObsInit
    /\ ctx_data' = <<>>
    /\ ctx_created_at' = dt_now
    /\ ctx_updated_at' = dt_now
    /\ UNCHANGED <<dt_now, ctx_lock, cx, cx_calls>>
    /\ UNCHANGED <<co_pc, co_run, co_file, co_loc, co_log, co_ret>>
    /\ UNCHANGED notCo

CoStart ==
    /\ obs = ObsInit
    /\ co_pc = "idle"
    /\ co_run = 0
    /\ co_file = [loadable |-> FALSE, numeric |-> TRUE, revenues |-> <<>>]
    /\ co_loc = LocInit
    /\ co_log = <<>>
    /\ co_ret = <<>>

(***************************************************************************)
(* GeminiClient.call: one admission by the rate limiter, then the loop of  *)
(* backend invocations with function calling, safety handling and retries. *)
(* wait_if_needed itself is modelled under SpecRL; here it returns or, as  *)
(* found there, raises IndexError.                                         *)
(***************************************************************************)
\* Bounds of the client model
MaxGemCalls == 2     \* GeminiClient.call invocations per behaviour
MaxRetriesArg == 2   \* max_retries is drawn from 0..MaxRetriesArg
MaxToolRounds == 2   \* function calls the backend requests within one call

FINISH_SAFETY == 2       \* candidate.finish_reason == 2
FINISH_RECITATION == 3   \* candidate.finish_reason == 3
FINISH_OTHER == 4        \* candidate.finish_reason == 4

\* Strings are sequences of words, so that `in` and a leading "Error:" can be tested.
MsgTimeout == <<"Deadline", "exceeded">>
Msg429 == <<"429", "Resource", "has", "been", "exhausted">>
MsgQuota == <<"Quota", "exceeded", "for", "metric">>
MsgNoFunction == <<"Function", "f", "not", "found", "in", "tools.">>
MsgToolFailed == <<"tool", "failed">>
MsgIndexError == <<"deque", "index", "out", "of", "range">>

MsgNoCandidates == <<"Error:", "Response", "blocked", "by", "safety", "filters", "or", "no",
                     "candidates", "returned.">>
MsgSafety == <<"Error:", "Response", "blocked", "by", "Gemini", "safety", "filters.">>
MsgRecitation == <<"Error:", "Response", "blocked", "due", "to", "recitation.">>
MsgOther == <<"Error:", "Response", "blocked", "for", "unknown", "reason.">>
MsgMaxRetries == <<"Error:", "Max", "retries", "exceeded", "without", "successful", "response.">>
TextOfPart == <<"text", "of", "the", "first", "part">>
TextOfResponse == <<"text", "of", "the", "response">>

\* str.lower() on a word
LowerWord(w) ==
    CASE w = "Quota" -> "quota"
      [] w = "Deadline" -> "deadline"
      [] w = "Resource" -> "resource"
      [] w = "Function" -> "function"
      [] OTHER -> w

Lower(msg) == [i \in 1..Len(msg) |-> LowerWord(msg[i])]

\* `word in msg`
Contains(msg, word) == \E i \in 1..Len(msg) : msg[i] = word

\* line 136: "429" in error_msg or "quota" in error_msg.lower()
IsQuotaError(msg) == Contains(msg, "429") \/ Contains(Lower(msg), "quota")

\* what one generate_content_async invocation can give
Raising(msg) == [kind |-> "raise", msg |-> msg, finish_reason |-> 0, part |-> "none"]
NoCandidates == [kind |-> "no_candidates", msg |-> <<>>, finish_reason |-> 0, part |-> "none"]
Candidate(fr, part) == [kind |-> "candidate", msg |-> <<>>, finish_reason |-> fr, part |-> part]

Parts == {"text", "function_call", "unknown_function_call", "failing_function_call", "none"}

BackendOutcomes ==
    {Raising(m) : m \in {MsgTimeout, Msg429, MsgQuota}}
        \cup {NoCandidates}
        \cup {Candidate(fr, "none") : fr \in {FINISH_SAFETY, FINISH_RECITATION, FINISH_OTHER}}
        \cup {Candidate(1, part) : part \in Parts}

\* (mutant) only the safety verdicts end the call
Blocked_SafetyOnly(resp) ==
    resp.kind = "no_candidates" \/ (resp.kind = "candidate" /\ resp.finish_reason = FINISH_SAFETY)

\* lines 66-83: no candidates, or finish_reason 2, 3 or 4
Blocked(resp) ==
    \/ resp.kind = "no_candidates"
    \/ resp.kind = "candidate"
         /\ resp.finish_reason \in {FINISH_SAFETY, FINISH_RECITATION, FINISH_OTHER}

\* lines 68, 75, 79, 83: the string returned for a blocked response
BlockedMessage(resp) ==
    IF resp.kind = "no_candidates" THEN MsgNoCandidates
    ELSE IF resp.finish_reason = FINISH_SAFETY THEN MsgSafety
    ELSE IF resp.finish_reason = FINISH_RECITATION THEN MsgRecitation
    ELSE MsgOther

\* (mutant) one attempt more than the ceiling
RetriesExhausted_OneMore(retries, max_retries) == retries > max_retries

\* line 141: if retries >= max_retries: raise e
RetriesExhausted(retries, max_retries) == retries >= max_retries

\* line 48: while retries < max_retries
LoopGoesOn(retries, max_retries) == retries < max_retries

NoResult_ == [kind |-> "none", value |-> <<>>]
Returned(str) == [kind |-> "return", value |-> str]
Raised(msg) == [kind |-> "raise", value |-> msg]

GemIdle ==
    [pc |-> "idle", max_retries |-> 0, retries |-> 0, admissions |-> 0,
     contents |-> <<>>, last_tool_response |-> FALSE, attempts |-> <<>>,
     sleeps |-> 0, result |-> NoResult_, calls |-> 0, unrecorded |-> 0]

\* GeminiClient.__init__ has run; no call yet
GemStart == gem = GemIdle

\* line 31: call(prompt, tools, system_instruction, max_retries)
GemCall(n) ==
    /\ gem.pc \in {"idle", "done"}
    /\ gem.calls < MaxGemCalls
    /\ gem' = [GemIdle EXCEPT !.pc = "admit", !.max_retries = n, !.calls = gem.calls + 1]
    /\ UNCHANGED notGem

\* lines 40-48: the admission, the locals, the first test of the loop condition
GemAdmit ==
    /\ gem.pc = "admit"
    /\ \E admitted \in BOOLEAN :
         IF ~admitted
         THEN \* wait_if_needed raised (rate_limiter.py line 30 on an empty window)
              gem' = [gem EXCEPT !.pc = "done", !.admissions = @ + 1,
                                 !.result = Raised(MsgIndexError)]
         ELSE IF LoopGoesOn(0, gem.max_retries)
         THEN gem' = [gem EXCEPT !.pc = "loop", !.admissions = @ + 1, !.retries = 0,
                                 !.last_tool_response = FALSE, !.contents = <<"prompt">>]
         ELSE \* line 144
              gem' = [gem EXCEPT !.pc = "done", !.admissions = @ + 1, !.retries = 0,
                                 !.last_tool_response = FALSE, !.contents = <<"prompt">>,
                                 !.result = Returned(MsgMaxRetries)]
    /\ UNCHANGED notGem

\* lines 130-142: the except branch (the 10 s sleep included), then line 48
ExceptionPath(g, msg) ==
    LET retries == g.retries + 1
        slept == IF IsQuotaError(msg) THEN g.sleeps + 1 ELSE g.sleeps
    IN IF RetriesExhausted(retries, g.max_retries)
       THEN [g EXCEPT !.retries = retries, !.sleeps = slept, !.pc = "done",
                      !.result = Raised(msg)]
       ELSE IF LoopGoesOn(retries, g.max_retries)
       THEN [g EXCEPT !.retries = retries, !.sleeps = slept]
       ELSE [g EXCEPT !.retries = retries, !.sleeps = slept, !.pc = "done",
                      !.result = Returned(MsgMaxRetries)]

ToolRounds(attempts) ==
    Cardinality({i \in 1..Len(attempts) : attempts[i].part = "function_call"})

\* lines 49-128: one iteration of the loop
GemAttempt ==
    /\ gem.pc = "loop"
    /\ \E resp \in BackendOutcomes :
         /\ resp.part = "function_call" => ToolRounds(gem.attempts) < MaxToolRounds
         /\ LET g == [gem EXCEPT
                        !.contents = IF gem.last_tool_response
                                     THEN Append(@, "function_response") ELSE @,
                        !.attempts = Append(@, resp)]
            IN gem' =
                 IF resp.kind = "raise" THEN ExceptionPath(g, resp.msg)
                 ELSE IF Blocked(resp)
                 THEN [g EXCEPT !.pc = "done", !.result = Returned(BlockedMessage(resp))]
                 ELSE IF resp.part = "unknown_function_call"
                 THEN ExceptionPath(g, MsgNoFunction)
                 ELSE IF resp.part = "failing_function_call"
                 THEN ExceptionPath(g, MsgToolFailed)
                 ELSE IF resp.part = "function_call"
                 THEN [g EXCEPT !.last_tool_response = TRUE]
                 ELSE IF resp.part = "text"
                 THEN [g EXCEPT !.pc = "done", !.result = Returned(TextOfPart)]
                 ELSE [g EXCEPT !.pc = "done", !.result = Returned(TextOfResponse)]
    /\ UNCHANGED notGem

\* lines 49-63 and 85-116 for the tool rounds past MaxToolRounds: the backend
\* asks for a tool once more, the tool runs, `continue` goes back to line 48
\* with retries as it was.  attempts and contents are kept for the first
\* MaxToolRounds rounds only; of the later rounds only the parity is kept.
GemToolRoundOn ==
    /\ gem.pc = "loop"
    /\ ToolRounds(gem.attempts) >= MaxToolRounds
    /\ gem' = [gem EXCEPT !.last_tool_response = TRUE, !.unrecorded = 1 - @]
    /\ UNCHANGED notGem

(***************************************************************************)
(* ToolRegistry                                                            *)
(***************************************************************************)
\* Bound of the registry model
MaxRegCalls == 4     \* register calls per behaviour

\* tool objects: the name they declare and which object it is
ToolObjects == {[name |-> n, id |-> i] : n \in {"load_csv_data", "detect_anomalies"}, i \in 1..2}
ToolNames == {"load_csv_data", "detect_anomalies", "generate_report_html"}

NoTool == [name |-> "None", id |-> 0]

\* ToolRegistry.__init__
RegInit == [tools |-> <<>>, registered |-> <<>>, ret |-> <<"none">>]

RegStart == reg = RegInit

\* (mutant) a name once taken keeps its first tool
RegPut_KeepFirst(tools, tool) ==
    IF HasKey(tools, tool.name) THEN tools ELSE Append(tools, <<tool.name, tool>>)

\* register, line 13: self.tools[tool.name] = tool
RegPut(tools, tool) == DataPut(tools, tool.name, tool)

\* (mutant) indexing instead of .get: a missing name raises
RegGet_Index(tools, name) ==
    IF HasKey(tools, name) THEN DataGet(tools, name, NoTool) ELSE [name |-> "KeyError", id |-> 0]

\* get_tool, line 16: self.tools.get(name)
RegGet(tools, name) == DataGet(tools, name, NoTool)

\* ToolRegistry.register
Register(tool) ==
    /\ Len(reg.registered) < MaxRegCalls
    /\ reg' = [tools |-> RegPut(reg.tools, tool),
               registered |-> Append(reg.registered, tool),
               ret |-> <<"register", NoTool>>]
    /\ UNCHANGED notReg

\* ToolRegistry.get_tool
GetTool(name) ==
    /\ reg' = [reg EXCEPT !.ret = <<"get_tool", name, RegGet(reg.tools, name)>>]
    /\ UNCHANGED notReg

\* ToolRegistry.list_tool_names, line 19: list(self.tools.keys())
ListToolNames ==
    /\ reg' = [reg EXCEPT !.ret = <<"list_tool_names", DataKeys(reg.tools)>>]
    /\ UNCHANGED notReg

(***************************************************************************)
(* detect_anomalies                                                        *)
(*                                                                         *)
(* One configured column.  A row either holds the column or lacks it.      *)
(* The threshold is the default 1.5; quartiles are kept times 4 and the    *)
(* fences times 8, so every comparison is on whole numbers.                *)
(***************************************************************************)
\* Bound of the detector model
MaxDetLen == 4       \* rows handed to detect_anomalies

Quartiles == 4
ThresholdNum == 3
ThresholdDen == 2

Row(v) == [has |-> TRUE, v |-> v]
RowWithoutColumn == [has |-> FALSE, v |-> 0]
DetRows == {Row(1), Row(2), Row(50), RowWithoutColumn}
DetMethods == {"iqr", "zscore", "mad"}

\* line 41: the values of the rows that hold the column
RECURSIVE ColumnValues(_)
ColumnValues(data) ==
    IF data = <<>> THEN <<>>
    ELSE IF Head(data).has THEN <<Head(data).v>> \o ColumnValues(Tail(data))
         ELSE ColumnValues(Tail(data))

RECURSIVE Insert(_, _)
Insert(x, s) ==
    IF s = <<>> THEN <<x>>
    ELSE IF x <= Head(s) THEN <<x>> \o s ELSE <<Head(s)>> \o Insert(x, Tail(s))

\* statistics.quantiles sorts its data
RECURSIVE SortValues(_)
SortValues(s) == IF s = <<>> THEN <<>> ELSE Insert(Head(s), SortValues(Tail(s)))

\* statistics.quantiles(values, n=4)[i-1], exclusive method, times 4
Quantile4(values, i) ==
    LET sorted == SortValues(values)
        ld == Len(sorted)
        m == ld + 1
        j0 == (i * m) \div Quartiles
        j == IF j0 < 1 THEN 1 ELSE IF j0 > ld - 1 THEN ld - 1 ELSE j0
        delta == i * m - j * Quartiles
    IN sorted[j] * (Quartiles - delta) + sorted[j + 1] * delta

\* lines 51-56: v < lower or v > upper
IqrOutlier(values, v) ==
    LET q1 == Quantile4(values, 1)
        q3 == Quantile4(values, 3)
        iqr == q3 - q1
        lower8 == ThresholdDen * q1 - ThresholdNum * iqr
        upper8 == ThresholdDen * q3 + ThresholdNum * iqr
    IN \/ ThresholdDen * Quartiles * v < lower8
       \/ ThresholdDen * Quartiles * v > upper8

\* n^2 (n-1) times the sample variance
RECURSIVE SquaredDeviations(_, _, _)
SquaredDeviations(values, n, total) ==
    IF values = <<>> THEN 0
    ELSE (n * Head(values) - total) * (n * Head(values) - total)
         + SquaredDeviations(Tail(values), n, total)

\* lines 59-66: stdev > 0 and abs((v - mean) / stdev) > threshold
ZscoreOutlier(values, v) ==
    LET n == Len(values)
        total == SumSeq(values)
        dev == SquaredDeviations(values, n, total)
    IN /\ dev > 0
       /\ ThresholdDen * ThresholdDen * (n - 1) * (n * v - total) * (n * v - total)
            > ThresholdNum * ThresholdNum * dev

\* lines 42-66: which rows the column's pass appends
ColumnAnomaly(data, method, row) ==
    LET values == ColumnValues(data)
    IN /\ Len(values) >= 2
       /\ \/ method = "iqr" /\ IqrOutlier(values, row.v)
          \/ method = "zscore" /\ ZscoreOutlier(values, row.v)

\* lines 54-57, 62-66, 70-77: the rows appended, in order, each once
RECURSIVE UniqueAnomalies(_, _, _, _)
UniqueAnomalies(data, method, rows, seen) ==
    IF rows = <<>> THEN <<>>
    ELSE IF ColumnAnomaly(data, method, Head(rows)) /\ Head(rows) \notin seen
         THEN <<Head(rows)>> \o UniqueAnomalies(data, method, Tail(rows), seen \cup {Head(rows)})
         ELSE UniqueAnomalies(data, method, Tail(rows), seen)

\* detect_anomalies, lines 34-35 and 79-85
DetectResult(data, method) ==
    IF data = <<>>
    THEN [status |-> "success", anomalies |-> <<>>, count |-> 0, method |-> method]
    ELSE LET unique == UniqueAnomalies(data, method, data, {})
         IN [status |-> "success", anomalies |-> unique, count |-> Len(unique),
             method |-> method]

NoDetectResult == [status |-> "none", anomalies |-> <<>>, count |-> 0, method |-> "none"]

DetStartWith(data, method) ==
    det = [data |-> data, method |-> method, pc |-> "ready", result |-> NoDetectResult]

DetStart == DetStartWith(<<>>, "iqr")

DetectAnomaliesCall ==
    /\ det.pc = "ready"
    /\ det' = [det EXCEPT !.pc = "done", !.result = DetectResult(det.data, det.method)]
    /\ UNCHANGED notDet

(***************************************************************************)
(* MarketTrendsTool                                                        *)
(*                                                                         *)
(* execute runs without a break up to the await of the API request, and    *)
(* again from the answer to its return.  sent counts the requests that     *)
(* left for the Google API.                                                *)
(***************************************************************************)
\* Bound of the market trends model
MaxMtCalls == 4      \* execute calls per behaviour

MtMaxRequests == 3    \* self.max_requests

MtCoros == {"c1", "c2"}
MtKeys == {"retail_US", "retail_EU", "cloud_US", "cloud_EU"}

MtNoReturn == [success |-> FALSE, source |-> "none", cached |-> FALSE]
MtIdle == [pc |-> "idle", key |-> "none", ret |-> MtNoReturn]

MtStartWith(credentials) ==
    mt = [credentials |-> credentials, request_count |-> 0, cache |-> {},
          sent |-> 0, started |-> 0, proc |-> [c \in MtCoros |-> MtIdle]]

MtStart == MtStartWith(TRUE)

Cached(cache, key) == \E e \in cache : e[1] = key
CacheGet(cache, key) == (CHOOSE e \in cache : e[1] = key)[2]
\* line 108: self.cache[cache_key] = result_data
CachePut(cache, key, source) == {e \in cache : e[1] # key} \cup {<<key, source>>}

\* lines 90: the tool's own request ceiling
QuotaSpent(count) == count >= MtMaxRequests

\* lines 107-117
MtFinish(c, key, source, count) ==
    mt' = [mt EXCEPT !.cache = CachePut(mt.cache, key, source),
                     !.request_count = count,
                     !.started = IF mt.proc[c].pc = "idle" THEN @ + 1 ELSE @,
                     !.proc[c] = [pc |-> "idle", key |-> key,
                                  ret |-> [success |-> TRUE, source |-> source,
                                           cached |-> FALSE]]]

\* execute, lines 71-96 up to the await, and to the return when nothing is awaited
MtExecute(c, key, use_api) ==
    /\ mt.proc[c].pc = "idle"
    /\ mt.started < MaxMtCalls
    /\ IF Cached(mt.cache, key)
       THEN mt' = [mt EXCEPT !.started = @ + 1,
                             !.proc[c] = [pc |-> "idle", key |-> key,
                                          ret |-> [success |-> TRUE,
                                                   source |-> CacheGet(mt.cache, key),
                                                   cached |-> TRUE]]]
       ELSE IF use_api /\ mt.credentials
            THEN IF QuotaSpent(mt.request_count)
                 THEN MtFinish(c, key, "Mock (rate limit)", mt.request_count)
                 ELSE mt' = [mt EXCEPT !.started = @ + 1, !.sent = @ + 1,
                                       !.proc[c] = [pc |-> "api", key |-> key,
                                                    ret |-> MtNoReturn]]
            ELSE MtFinish(c, key, "Mock (no API credentials)", mt.request_count)
    /\ UNCHANGED notMt

\* lines 96-117 from the answer of the API on: a 200 is counted, anything else is not
MtApiAnswers(c, ok) ==
    /\ mt.proc[c].pc = "api"
    /\ IF ok
       THEN MtFinish(c, mt.proc[c].key, "Google Search API", mt.request_count + 1)
       ELSE MtFinish(c, mt.proc[c].key, "Mock (API error)", mt.request_count)
    /\ UNCHANGED notMt

(***************************************************************************)
(* LLMCoordinatorAgent.execute_pipeline                                    *)
(*                                                                         *)
(* Each agent's act is one GeminiClient.call: it returns a string or       *)
(* raises.  self.context is a plain dict, kept from one run to the next.   *)
(***************************************************************************)
\* Bound of the pipeline model
MaxLpRuns == 2       \* execute_pipeline runs per behaviour

\* the key written with the result of a phase (lines 24, 38, 47, 60); the
\* summary is written after the report (line 85)
LpKey(phase) ==
    CASE phase = "DataLoader" -> "data_load_result"
      [] phase = "Analyst" -> "analysis_result"
      [] phase = "Recommender" -> "recommendation_result"
      [] phase = "Critic" -> "critique_result"
      [] phase = "report" -> "final_summary"
      [] OTHER -> "none"

\* (mutant) the critique is left out
LpNextPhase_SkipCritic(phase) ==
    CASE phase = "DataLoader" -> "Analyst"
      [] phase = "Analyst" -> "Recommender"
      [] phase = "Recommender" -> "Coordinator"
      [] phase = "Critic" -> "Coordinator"
      [] phase = "Coordinator" -> "report"
      [] OTHER -> "idle"

\* the statement order of lines 18-86
LpNextPhase(phase) ==
    CASE phase = "DataLoader" -> "Analyst"
      [] phase = "Analyst" -> "Recommender"
      [] phase = "Recommender" -> "Critic"
      [] phase = "Critic" -> "Coordinator"
      [] phase = "Coordinator" -> "report"
      [] OTHER -> "idle"

\* what a phase can give: the model's text, one of the "Error: ..." strings that
\* GeminiClient.call returns (for the report: a failure status), or an exception
LpOutcomes == {"text", "error_text", "raise"}

LpEvent(kind, name, outcome) == [kind |-> kind, name |-> name, ok |-> outcome # "raise"]

\* LLMCoordinatorAgent.__init__
LpStart == lp = [pc |-> "idle", run |-> 0, context |-> <<>>, log |-> <<>>, ret |-> <<>>]

\* execute_pipeline is called, lines 12-19
LpExecute ==
    /\ lp.pc = "idle"
    /\ lp.run < MaxLpRuns
    /\ lp' = [lp EXCEPT !.pc = "DataLoader", !.run = @ + 1,
                        !.log = Append(@, <<>>), !.ret = Append(@, "running")]
    /\ UNCHANGED notLp

\* one phase: the agent's act (or generate_report_html) returns or raises, and
\* after a return the key of the phase is written with self.context.update
LpPhase ==
    /\ lp.pc \notin {"idle"}
    /\ \E outcome \in LpOutcomes :
         LET phase == lp.pc
             kind == IF phase = "report" THEN "tool" ELSE "agent"
             done == LpEvent(kind, phase, outcome)
             write == LpEvent("ctx", LpKey(phase), "text")
         IN IF outcome = "raise"
            THEN lp' = [lp EXCEPT !.pc = "idle", !.log[lp.run] = Append(@, done),
                                  !.ret[lp.run] = "raised"]
            ELSE IF LpKey(phase) = "none"
            THEN lp' = [lp EXCEPT !.pc = LpNextPhase(phase), !.log[lp.run] = Append(@, done)]
            ELSE lp' = [lp EXCEPT
                          !.pc = LpNextPhase(phase),
                          !.context = DataPut(@, LpKey(phase), <<lp.run, outcome>>),
                          !.log[lp.run] = @ \o <<done, write>>,
                          !.ret[lp.run] = IF phase = "report" THEN "final_summary" ELSE @]
    /\ UNCHANGED notLp

(***************************************************************************)
(* SharedContext used by a single task, one call after the other           *)
(***************************************************************************)
SeqTask == "c1"
SeqOps == {"update", "get"}
SeqArgs == CtxArgs \cup {Dict({<<"a", 3>>})}

\* the call returns or raises to the task, which notes what it saw
CtxReturn(c) ==
    /\ cx[c].pc = "exit"
    /\ ctx_lock' = "free"
    /\ cx_log' = Append(cx_log, [op |-> cx[c].op, key |-> cx[c].key, val |-> cx[c].val,
                                 result |-> cx[c].result, ret |-> cx[c].ret,
                                 pre |-> cx[c].pre_data, post |-> ctx_data])
    /\ cx' = [cx EXCEPT ![c] = CxIdle]
    /\ UNCHANGED <<dt_now, ctx_data, ctx_created_at, ctx_updated_at, cx_calls>>
    /\ UNCHANGED notSeq

(***************************************************************************)
(* ObservabilityPlugin used on its own                                     *)
(***************************************************************************)
\* Bound of the plugin model
MaxObsOps == 3       \* counted callbacks per behaviour

ObsAgents == {"Coordinator", "AnalystAgent"}
ObsTools == {"load_csv_data", "detect_anomalies"}
ObsTids == {1, 2}
ObsResults == {NoData,
               WithData({}),
               WithData({<<"anomalies_found", 2>>}),
               WithData({<<"anomalies_found", 1>>, <<"max_severity", HIGH>>}),
               WithData({<<"recommendations_generated", 3>>})}

\* the callbacks that have left a mark so far
ObsOps(o) == SumValues(o.agent_calls) + SumValues(o.tool_calls) + Len(o.errors) + o.latencies

\* get_trace, lines 83-85: self.traces.get(trace_id, {})
GetTrace(o, tid) == IF tid \in DOMAIN o.traces THEN o.traces[tid] ELSE <<>>

ObBeforeAgent(agent, tid) ==
    /\ ObsOps(obs) < MaxObsOps
    /\ obs' = BeforeAgentCb(obs, agent, tid)
    /\ ob_ret' = <<"none">>
    /\ UNCHANGED notObs

ObAfterAgent(agent, tid, result) ==
    /\ ObsOps(obs) < MaxObsOps
    /\ obs' = AfterAgentCb(obs, agent, tid, result)
    /\ ob_ret' = <<"after_agent_callback", result>>
    /\ UNCHANGED notObs

ObBeforeTool(tool) ==
    /\ ObsOps(obs) < MaxObsOps
    /\ obs' = BeforeToolCb(obs, tool)
    /\ ob_ret' = <<"before_tool_callback", tool>>
    /\ UNCHANGED notObs

ObAfterTool(tool) ==
    /\ obs' = AfterToolCb(obs, tool)
    /\ ob_ret' = <<"after_tool_callback", tool>>
    /\ UNCHANGED notObs

ObOnError(tid) ==
    /\ ObsOps(obs) < MaxObsOps
    /\ obs' = OnErrorCb(obs, tid)
    /\ ob_ret' = <<"none">>
    /\ UNCHANGED notObs

ObGetTrace(tid) ==
    /\ ob_ret' = <<"get_trace", tid, GetTrace(obs, tid)>>
    /\ UNCHANGED obs
    /\ UNCHANGED notObs

ObGetMetricsSummary ==
    /\ ob_ret' = <<"get_metrics_summary", MetricsSummary(obs)>>
    /\ UNCHANGED obs
    /\ UNCHANGED notObs

\* export_traces_json, export_metrics_json, lines 106-119: a file is written
ObExport(which) ==
    /\ ob_ret' = <<which>>
    /\ UNCHANGED obs
    /\ UNCHANGED notObs

ToolsStart ==
    /\ cx_log = <<>>
    /\ RegStart
    /\ ob_ret = <<"none">>
    /\ DetStart
    /\ MtStart
    /\ LpStart

(***************************************************************************)
(* Specifications                                                          *)
(***************************************************************************)
InitRL ==
    \E t \in 2..MaxCfgTokens, r \in 1..MaxCfgRequests :
        RLStart(t, r) /\ CtxStart /\ CoStart /\ GemStart /\ ToolsStart

NextRL ==
    \/ \E c \in Coros, est \in 1..MaxEstimate : WaitBegin(c, est)
    \/ \E c \in Coros : WakeTok(c)
    \/ \E c \in Coros : WakeReq(c)
    \/ \E d \in TickSteps : Tick(d)

SpecRL == InitRL /\ [][NextRL]_vars

\* the default RateLimiter() under a burst of sequential calls
InitBurst == RLStart(DefaultMaxTokens, DefaultMaxRequests) /\ CtxStart /\ CoStart /\ GemStart /\ ToolsStart

NextBurst ==
    \/ BurstCall
    \/ WakeReq("c1")
    \/ BurstTick

SpecBurst == InitBurst /\ [][NextBurst]_vars /\ WF_vars(WakeReq("c1")) /\ WF_vars(BurstTick)

InitCtx == RLStart(MaxCfgTokens, MaxCfgRequests) /\ CtxStart /\ CoStart /\ GemStart /\ ToolsStart

NextCtx ==
    \/ \E c \in Coros, op \in CtxOps, k \in CtxKeys, v \in CtxArgs : CtxCall(c, op, k, v)
    \/ \E c \in Coros : CtxAcquire(c)
    \/ \E c \in Coros : CtxBody(c)
    \/ \E c \in Coros : CtxUpdateMerge(c)
    \/ \E c \in Coros : CtxRelease(c)
    \/ CtxTick

SpecCtx == InitCtx /\ [][NextCtx]_vars

InitCoord == RLStart(MaxCfgTokens, MaxCfgRequests) /\ CtxStart /\ CoStart /\ GemStart /\ ToolsStart

NextCoord ==
    \/ \E f \in Files : StartRun(f)
    \/ LoadData
    \/ DetectIqr
    \/ DetectZscore
    \/ Analyze
    \/ Recommend
    \/ Report
    \/ NewCoordinator

SpecCoord == InitCoord /\ [][NextCoord]_vars

InitGem == RLStart(DefaultMaxTokens, DefaultMaxRequests) /\ CtxStart /\ CoStart /\ GemStart /\ ToolsStart

NextGem ==
    \/ \E n \in 0..MaxRetriesArg : GemCall(n)
    \/ GemAdmit
    \/ GemAttempt

SpecGem == InitGem /\ [][NextGem]_vars

\* a RateLimiter whose max_requests_per_minute is above the length of its deques
WideMaxRequests == DequeMaxLen + 1
WideCalls == DequeMaxLen + 2

WideCall ==
    /\ rl_started < WideCalls
    /\ WaitEntry("c1", DefaultEstimate)

WideTick == clock < BurstLatest /\ Tick(1)

InitWide == RLStart(DefaultMaxTokens, WideMaxRequests) /\ CtxStart /\ CoStart /\ GemStart /\ ToolsStart

NextWide ==
    \/ WideCall
    \/ WideTick

SpecWide == InitWide /\ [][NextWide]_vars

\* ---- GeminiClient.call against a backend that may ask for tools without end
NextGemLoop ==
    \/ \E n \in 0..MaxRetriesArg : GemCall(n)
    \/ GemAdmit
    \/ GemAttempt
    \/ GemToolRoundOn

\* the call is scheduled until it ends; what the backend answers is its own choice
SpecGemLoop ==
    InitGem /\ [][NextGemLoop]_vars /\ WF_vars(GemAdmit) /\ WF_vars(GemAttempt \/ GemToolRoundOn)

\* ---- LLMCoordinatorAgent
NextLp ==
    \/ LpExecute
    \/ LpPhase

SpecLp == InitCtx /\ [][NextLp]_vars

\* ---- SharedContext, one task
InitSeq == InitCtx

NextSeq ==
    \/ \E op \in SeqOps, k \in CtxKeys, v \in SeqArgs : CtxCall(SeqTask, op, k, v)
    \/ CtxAcquire(SeqTask)
    \/ CtxBody(SeqTask)
    \/ CtxUpdateMerge(SeqTask)
    \/ CtxReturn(SeqTask)

SpecSeq == InitSeq /\ [][NextSeq]_vars

\* ---- ToolRegistry
InitReg == InitCtx

NextReg ==
    \/ \E tool \in ToolObjects : Register(tool)
    \/ \E name \in ToolNames : GetTool(name)
    \/ ListToolNames

SpecReg == InitReg /\ [][NextReg]_vars

\* ---- ObservabilityPlugin on its own
InitObs == InitCtx

NextObs ==
    \/ \E a \in ObsAgents, tid \in ObsTids : ObBeforeAgent(a, tid)
    \/ \E a \in ObsAgents, tid \in ObsTids, r \in ObsResults : ObAfterAgent(a, tid, r)
    \/ \E t \in ObsTools : ObBeforeTool(t)
    \/ \E t \in ObsTools : ObAfterTool(t)
    \/ \E tid \in ObsTids : ObOnError(tid)
    \/ \E tid \in ObsTids : ObGetTrace(tid)
    \/ ObGetMetricsSummary
    \/ \E which \in {"export_traces_json", "export_metrics_json"} : ObExport(which)

SpecObs == InitObs /\ [][NextObs]_vars

\* ---- detect_anomalies: the rows and the method are the inputs
InitDet ==
    /\ RLStart(MaxCfgTokens, MaxCfgRequests) /\ CtxStart /\ CoStart /\ GemStart
    /\ cx_log = <<>> /\ RegStart /\ ob_ret = <<"none">> /\ MtStart /\ LpStart
    /\ \E n \in 0..MaxDetLen : \E data \in [1..n -> DetRows] : \E method \in DetMethods :
          DetStartWith(data, method)

NextDet == DetectAnomaliesCall

SpecDet == InitDet /\ [][NextDet]_vars

\* ---- MarketTrendsTool
InitMt ==
    /\ RLStart(MaxCfgTokens, MaxCfgRequests) /\ CtxStart /\ CoStart /\ GemStart
    /\ cx_log = <<>> /\ RegStart /\ ob_ret = <<"none">> /\ DetStart /\ LpStart
    /\ \E credentials \in BOOLEAN : MtStartWith(credentials)

NextMt ==
    \/ \E c \in MtCoros, key \in MtKeys, use_api \in BOOLEAN : MtExecute(c, key, use_api)
    \/ \E c \in MtCoros, ok \in BOOLEAN : MtApiAnswers(c, ok)

SpecMt == InitMt /\ [][NextMt]_vars

(***************************************************************************)
(* Claims                                                                  *)
(***************************************************************************)
\* C1: whenever a wait_if_needed call returns, the calls that returned within
\* the 60 seconds ending at that moment (this one included) number at most
\* max_requests and their estimated tokens sum to at most max_tokens.
ReturnedInWindow(i) ==
    {j \in 1..i : rl_returned[j][1] >= rl_returned[i][1] - Window}

RECURSIVE SumTokensOf(_)
SumTokensOf(S) ==
    IF S = {} THEN 0
    ELSE LET j == CHOOSE x \in S : TRUE IN rl_returned[j][2] + SumTokensOf(S \ {j})

C1_NeverOverBudget ==
    \A i \in 1..Len(rl_returned) :
        /\ Cardinality(ReturnedInWindow(i)) <= max_requests
        /\ SumTokensOf(ReturnedInWindow(i)) <= max_tokens

\* C7: an update that raises (stored value or partial_value not a dict) leaves
\* the key set, every value and updated_at exactly as they were before the call.
C7_FailedUpdateLeavesStoreUnchanged ==
    \A c \in Coros :
        (cx[c].pc = "exit" /\ cx[c].op = "update" /\ cx[c].result = "ValueError")
            => /\ ctx_data = cx[c].pre_data
               /\ ctx_updated_at = cx[c].pre_updated

\* C8: at most one SharedContext operation is inside its critical section at a
\* time, and no update is lost: a successful update leaves its partial's entries
\* in the value and keeps every other entry, and only set and clear ever remove
\* an entry of a stored dict.
CtxInCS(c) == cx[c].pc \in {"cs", "cs_merge", "exit"}

C8_MutualExclusion ==
    \A c1, c2 \in Coros : (CtxInCS(c1) /\ CtxInCS(c2)) => c1 = c2

C8_MergeStep(c) ==
    cx[c].pc = "cs_merge" /\ cx'[c].pc = "exit" /\ cx'[c].result = "ok"

C8_ReplaceStep ==
    \E c \in Coros : cx[c].pc = "cs" /\ cx[c].op \in {"set", "clear"} /\ cx'[c].pc = "exit"

C8_UpdateTakesEffect ==
    \A c \in Coros :
        C8_MergeStep(c) =>
            LET old == DataGet(ctx_data, cx[c].key, NoneVal)
                new == DataGet(ctx_data', cx[c].key, NoneVal)
            IN /\ new.isdict
               /\ cx[c].val.items \subseteq new.items
               /\ {it \in old.items : it[1] \notin Fields(cx[c].val)} \subseteq new.items

C8_EntriesKept ==
    \A k \in CtxKeys :
        (HasKey(ctx_data, k) /\ DataGet(ctx_data, k, NoneVal).isdict /\ ~C8_ReplaceStep)
            => /\ HasKey(ctx_data', k)
               /\ Fields(DataGet(ctx_data, k, NoneVal)) \subseteq Fields(DataGet(ctx_data', k, NoneVal))

C8_Atomic ==
    /\ []C8_MutualExclusion
    /\ [][C8_UpdateTakesEffect /\ C8_EntriesKept]_vars

\* a second update has accumulated onto the first while another caller waits for the lock
C8_Witness ==
    \E c1, c2 \in Coros :
        /\ c1 # c2
        /\ cx[c1].pc = "exit" /\ cx[c1].op = "update" /\ cx[c1].result = "ok"
        /\ cx[c2].pc = "acquire" /\ cx[c2].op = "update" /\ cx[c2].key = cx[c1].key
        /\ Fields(DataGet(ctx_data, cx[c1].key, NoneVal)) = {"a", "b"}

\* C10 (as claimed): every completed set leaves updated_at strictly greater
\* than it was before the call, and created_at never changes.
C10_SetStrictlyIncreases ==
    \A c \in Coros :
        (cx[c].pc = "exit" /\ cx[c].op = "set")
            => (ctx_updated_at > cx[c].pre_updated /\ ctx_created_at = 0)

\* C10 (amended): a set leaves updated_at equal to the clock reading taken
\* inside the call, so it is strictly greater than before exactly when that
\* reading is later than the previous updated_at; created_at never changes.
C10_SetStep(c) == cx[c].pc = "cs" /\ cx[c].op = "set" /\ cx'[c].pc = "exit"

C10_SetStampsClock ==
    [][ /\ \A c \in Coros :
              C10_SetStep(c) =>
                  /\ ctx_updated_at' = dt_now
                  /\ (ctx_updated_at' > ctx_updated_at) <=> (dt_now > ctx_updated_at)
        /\ ctx_created_at' = ctx_created_at ]_vars

\* a set has completed while the clock reading was still the previous updated_at
C10_Witness ==
    \E c \in Coros :
        /\ cx[c].pc = "exit" /\ cx[c].op = "set"
        /\ ctx_updated_at = cx[c].pre_updated
        /\ HasKey(ctx_data, cx[c].key)

(***************************************************************************)
(* Claims about CoordinatorAgent.execute_analysis, checked under SpecCoord  *)
(***************************************************************************)
Runs == DOMAIN co_log

\* the runs whose trace is held by the current ObservabilityPlugin
TracedRuns == DOMAIN co_log \cap DOMAIN obs.traces

Finished(r) == co_ret[r] # "running"

\* C2 (as claimed): a phase tool call that returned success=false is the last
\* call of its run: no tool, sub-agent or context write of a later phase follows it.
C2_FailureHaltsRun ==
    \A r \in Runs :
        \A i \in 1..Len(co_log[r]) :
            (co_log[r][i].kind = "tool" /\ ~co_log[r][i].ok) => i = Len(co_log[r])

\* C3: when the load tool returns success=false, the run's trace holds exactly
\* Coordinator_start and Coordinator_end, the failed load is the only call of
\* the run (no detection, no sub-agent, no report, no context write), the
\* store is left as it was, and the call returns None.
C3_LoadFailedRun(r) ==
    /\ co_log[r] # <<>>
    /\ co_log[r][1] = Call("tool", "load_csv_data", FALSE)

C3_FailedLoadStep == co_pc = "load" /\ ~LoadResult(co_file).success /\ co_pc' # co_pc

C3_LoadFailureStopsRun ==
    /\ [](\A r \in Runs :
            C3_LoadFailedRun(r) =>
                /\ co_log[r] = <<Call("tool", "load_csv_data", FALSE)>>
                /\ co_ret[r] = "None"
                /\ r \in DOMAIN obs.traces =>
                       obs.traces[r] = <<StartSpan("Coordinator"), EndSpan("Coordinator")>>)
    /\ [][C3_FailedLoadStep =>
            /\ co_pc' = "idle"
            /\ ctx_data' = ctx_data
            /\ obs'.tool_calls["detect_anomalies"] = obs.tool_calls["detect_anomalies"]
            /\ obs'.tool_calls["generate_report_html"] = obs.tool_calls["generate_report_html"]]_vars

\* a run whose load failed has ended and its trace is on record
C3_Witness ==
    \E r \in TracedRuns :
        /\ C3_LoadFailedRun(r)
        /\ Finished(r)
        /\ Len(obs.traces[r]) = 2

\* C4 (as claimed): once a run has returned or raised, every X_start span of
\* its trace is followed later in the trace by an X_end span.
C4_EveryStartHasEnd ==
    \A r \in TracedRuns :
        Finished(r) =>
            \A i \in 1..Len(obs.traces[r]) :
                obs.traces[r][i][2] = "start" =>
                    \E j \in (i + 1)..Len(obs.traces[r]) :
                        obs.traces[r][j] = EndSpan(obs.traces[r][i][1])

\* C5 (as claimed): every run that returned None or raised has an entry in
\* the collector's error list.
C5_FailedRunRecorded ==
    \A r \in TracedRuns :
        co_ret[r] \in {"None", "raised"} =>
            \E i \in 1..Len(obs.errors) : obs.errors[i] = r

\* the calls of a complete run, in order
FullOrder ==
    << <<"tool", "load_csv_data">>, <<"ctx", "raw_data">>,
       <<"tool", "detect_anomalies:iqr">>, <<"tool", "detect_anomalies:zscore">>,
       <<"ctx", "detected_anomalies">>,
       <<"agent", "AnalystAgent">>, <<"ctx", "analysis_result">>,
       <<"agent", "RecommendationAgent">>, <<"ctx", "recommendation_result">>,
       <<"tool", "generate_report_html">> >>

CallNames(log) == [i \in 1..Len(log) |-> <<log[i].kind, log[i].name>>]

IsPrefix(s, t) == Len(s) <= Len(t) /\ s = SubSeq(t, 1, Len(s))

\* C6: the calls of a run are an initial part of load, raw_data, iqr, zscore,
\* detected_anomalies, AnalystAgent, analysis_result, RecommendationAgent,
\* recommendation_result, report: phases and context keys come in that order,
\* nothing of a later phase comes before an earlier one, nothing happens twice.
C6_PhasesInOrder ==
    \A r \in Runs : IsPrefix(CallNames(co_log[r]), FullOrder)

\* a run went through every phase
C6_Witness ==
    \E r \in Runs : Finished(r) /\ CallNames(co_log[r]) = FullOrder

\* C9 (as claimed): when a run starts, the SharedContext it uses has no keys.
C9_RunStartsEmpty == co_pc = "load" => ctx_data = <<>>

(***************************************************************************)
(* Claims about RateLimiter under a burst (SpecBurst) and in general       *)
(***************************************************************************)
\* the calls recorded so far were all issued within one second of the first
C15_WithinOneSecond ==
    request_times # <<>> => request_times[Len(request_times)] - request_times[1] <= 1

C15_BurstInv ==
    /\ rl["c1"].pc # "raised"
    /\ C15_WithinOneSecond =>
         \* the first 15 calls returned at the clock reading of their entry
         /\ \A i \in 1..Len(rl_returned) :
                i <= DefaultMaxRequests => rl_returned[i][1] = request_times[i]
         \* the 16th, issued within the second, is asleep until 60 s after the first
         /\ (rl["c1"].pc # "idle" /\ rl["c1"].now - request_times[1] <= 1) =>
                /\ rl_started = BurstCalls
                /\ rl["c1"].pc = "sleep_req"
                /\ rl["c1"].wake >= request_times[1] + Window
         /\ Len(rl_returned) = BurstCalls =>
                /\ rl_returned[BurstCalls][1] >= request_times[1] + Window
                /\ rl_returned[BurstCalls][1] > request_times[BurstCalls]
    \* nothing but the 16th call is ever suspended
    /\ rl["c1"].pc # "idle" => rl_started = BurstCalls

\* C15: with max_requests_per_minute = 15 and 16 sequential calls within one
\* second, the first 15 return without suspension, the 16th is suspended and
\* returns no earlier than 60 s after the first call's timestamp, and it does
\* return (it never raises).
C15_SixteenthWaits ==
    /\ []C15_BurstInv
    /\ (rl_started = BurstCalls) ~> (Len(rl_returned) = BurstCalls)

\* 16 calls issued over one second have all returned
C15_Witness ==
    /\ Len(rl_returned) = BurstCalls
    /\ request_times[1] = 0
    /\ request_times[BurstCalls] = 1
    /\ rl_returned[DefaultMaxRequests][1] <= 1

\* C16 (as claimed): wait_if_needed never raises, whatever the window and the estimate.
C16_NeverRaises == \A c \in Coros : rl[c].pc # "raised"

(***************************************************************************)
(* Claims about GeminiClient.call, checked under SpecGem                    *)
(***************************************************************************)
\* an attempt whose loop iteration ended in the except branch
AttemptRaised(a) ==
    a.kind = "raise" \/ a.part \in {"unknown_function_call", "failing_function_call"}

RaisingAttempts(attempts, upto) ==
    Cardinality({i \in 1..upto : AttemptRaised(attempts[i])})

AttemptMessage(a) ==
    IF a.kind = "raise" THEN a.msg
    ELSE IF a.part = "unknown_function_call" THEN MsgNoFunction
    ELSE MsgToolFailed

\* C11: with max_retries = n >= 1 a call never has more than n raising
\* attempts; every attempt is sent the same prompt; the n-th raising attempt
\* is the last backend attempt of the call, and the call then raises that
\* attempt's error.
C11_RetryCeiling ==
    gem.max_retries >= 1 =>
        LET n == gem.max_retries
            k == Len(gem.attempts)
        IN /\ RaisingAttempts(gem.attempts, k) <= n
           /\ gem.contents # <<>> => gem.contents[1] = "prompt"
           /\ \A i \in 1..k :
                  (AttemptRaised(gem.attempts[i]) /\ RaisingAttempts(gem.attempts, i) = n) =>
                      /\ i = k
                      /\ gem.pc = "done"
                      /\ gem.result = Raised(AttemptMessage(gem.attempts[i]))
           /\ (gem.result.kind = "raise" /\ k > 0) => RaisingAttempts(gem.attempts, k) = n

\* a call with max_retries = 2 has raised after a function call and two raising attempts
C11_Witness ==
    /\ gem.pc = "done"
    /\ gem.max_retries = 2
    /\ gem.result.kind = "raise"
    /\ Len(gem.attempts) = 3
    /\ RaisingAttempts(gem.attempts, 3) = 2

\* C12 (as claimed): every backend invocation has its own admission: the
\* invocations of a call never outnumber its wait_if_needed calls.
C12_AdmissionPerInvocation == Len(gem.attempts) <= gem.admissions

\* C13 (as claimed): a call whose last attempt failed with a quota error
\* returns a placeholder message; it does not raise.
C13_QuotaGivesPlaceholder ==
    (/\ gem.pc = "done"
     /\ gem.attempts # <<>>
     /\ gem.attempts[Len(gem.attempts)].kind = "raise"
     /\ \/ Contains(gem.attempts[Len(gem.attempts)].msg, "429")
        \/ Contains(gem.attempts[Len(gem.attempts)].msg, "Quota"))
        => (gem.result.kind = "return" /\ gem.result.value[1] = "Error:")

C14_IsBlock(a) ==
    a.kind = "no_candidates" \/ (a.kind = "candidate" /\ a.finish_reason \in {2, 3, 4})

\* C14: a response with no candidates or with finish_reason 2, 3 or 4 is the
\* last backend invocation of its call: the call has ended, it returned a
\* string beginning with "Error:", it did not raise, and the block consumed no
\* retry (retries counts the raising attempts only).
C14_BlockNeverRetried ==
    \A i \in 1..Len(gem.attempts) :
        C14_IsBlock(gem.attempts[i]) =>
            /\ i = Len(gem.attempts)
            /\ gem.pc = "done"
            /\ gem.result.kind = "return"
            /\ gem.result.value[1] = "Error:"
            /\ gem.retries = RaisingAttempts(gem.attempts, Len(gem.attempts))

\* a recitation block arrived after a retry had been consumed and ended the call
C14_Witness ==
    /\ gem.pc = "done"
    /\ Len(gem.attempts) = 2
    /\ AttemptRaised(gem.attempts[1])
    /\ gem.attempts[2].kind = "candidate"
    /\ gem.attempts[2].finish_reason = 3
    /\ gem.retries = 1

(***************************************************************************)
(* Claims about metrics, the report payload and the detection fan-out,     *)
(* checked under SpecCoord                                                 *)
(***************************************************************************)
\* the last run has returned its report
LastRunSucceeded == co_pc = "idle" /\ co_run > 0 /\ co_ret[co_run] = "report"

\* the last run got as far as building the report payload
LastRunReachedReport ==
    /\ co_pc = "idle" /\ co_run > 0
    /\ co_log[co_run] # <<>>
    /\ co_log[co_run][Len(co_log[co_run])].name = "generate_report_html"

\* C17 (as claimed): after a successful run with a non-empty anomaly union the
\* metrics summary shows anomalies_found >= 1, total_agent_calls >= 1, error_count = 0.
C17_MetricsAfterSuccess ==
    (LastRunSucceeded /\ co_run \in DOMAIN obs.traces /\ co_loc.anomalies # {}) =>
        /\ MetricsSummary(obs).anomalies_found >= 1
        /\ MetricsSummary(obs).total_agent_calls >= 1
        /\ MetricsSummary(obs).error_count = 0

C18_Payload(analysis, rec, rd) ==
    /\ rd.issues # <<>>
    /\ rd.recommendations # <<>>
    /\ (rd.issues = <<DefaultIssue>>) <=> (analysis.patterns = <<>>)
    /\ (rd.recommendations = <<DefaultRecommendation>>) <=> (rec.action_items = <<>>)

\* inputs the pipeline itself never produces: no action item, more than five
C18_RecInputs ==
    { [action_items |-> <<>>],
      [action_items |-> [i \in 1..6 |-> [priority |-> 1, title |-> "Capitalize on Spike Drivers"]]] }

\* C18: in every run that reaches the report phase both lists of the payload
\* are non-empty; issues is the single default issue exactly when the
\* patterns give no issue, recommendations the single default recommendation
\* exactly when there is no action item (also for a recommendation result
\* without action items, which ReportData is applied to directly).
C18_ReportNeverBlank ==
    /\ LastRunReachedReport =>
           C18_Payload(co_loc.analysis_dict, co_loc.recommendation_dict, co_loc.report_data)
    /\ co_pc = "report" =>
           \A rec \in C18_RecInputs :
               C18_Payload(co_loc.analysis_dict, rec, ReportData(co_loc.analysis_dict, rec))

\* a report was built from patterns, and one from none
C18_Witness ==
    /\ LastRunReachedReport
    /\ co_loc.analysis_dict.patterns # <<>>
    /\ co_loc.report_data.issues # <<DefaultIssue>>
    /\ Len(co_loc.report_data.recommendations) >= 2

\* C19 (as claimed): a successful run with no detected anomaly has the single
\* default issue and the single default recommendation in its report.
C19_PlaceholderReport ==
    (LastRunSucceeded /\ co_loc.anomalies = {}) =>
        /\ co_loc.report_data.issues = <<DefaultIssue>>
        /\ co_loc.report_data.recommendations = <<DefaultRecommendation>>

C20_LoadPassed(r) == co_log[r] # <<>> /\ co_log[r][1] = Call("tool", "load_csv_data", TRUE)

C20_BothInvoked(r) ==
    /\ Len(co_log[r]) >= 5
    /\ co_log[r][3].name = "detect_anomalies:iqr"
    /\ co_log[r][4].name = "detect_anomalies:zscore"
    /\ co_log[r][5].name = "detected_anomalies"

C20_DetectStep == co_pc = "detect_zscore" /\ co_pc' # co_pc

C21_CleanRunEnded ==
    /\ co_pc = "idle" /\ co_run \in TracedRuns
    /\ co_loc.iqr_result.success /\ co_loc.iqr_result.anomalies = {}
    /\ co_loc.zscore_result.success /\ co_loc.zscore_result.anomalies = {}

\* C21: when both detection methods succeed with no anomalies, the run writes an
\* empty detected_anomalies, goes on through AnalystAgent, RecommendationAgent
\* and the report tool in that order, records no error entry, and returns the
\* report result when the report tool succeeds.
C21_EmptyIsNotFailure ==
    C21_CleanRunEnded =>
        LET log == co_log[co_run]
        IN /\ DataGet(ctx_data, "detected_anomalies", NoneVal).payload = {}
           /\ CallNames(log) = FullOrder
           /\ \A i \in 1..9 : log[i].ok
           /\ \A i \in 1..Len(obs.errors) : obs.errors[i] # co_run
           /\ co_ret[co_run] \in {"report", "None"}
           /\ log[10].ok <=> co_ret[co_run] = "report"

\* a run over revenues that sum to zero found no anomaly and returned its report
C21_Witness ==
    /\ C21_CleanRunEnded
    /\ SumSeq(co_loc.raw_data) = 0
    /\ co_ret[co_run] = "report"

C22_Absent == [isdict |-> FALSE, items |-> {<<"absent", 0>>}]

C22_Value(data, k) ==
    IF \E i \in 1..Len(data) : data[i][1] = k
    THEN data[CHOOSE i \in 1..Len(data) : data[i][1] = k][2]
    ELSE C22_Absent

\* p1 overridden by p2: every field of either, with p2's value where both have it
C22_Override(p1, p2) ==
    [isdict |-> TRUE,
     items |-> {it \in p1.items \cup p2.items :
                   it \in p2.items \/ ~\E jt \in p2.items : jt[1] = it[1]}]

C22_TwoUpdates(e1, e2) ==
    /\ e1.op = "update" /\ e2.op = "update" /\ e1.key = e2.key
    /\ e1.val.isdict /\ e2.val.isdict
    /\ C22_Value(e1.pre, e1.key) = C22_Absent

\* C22: on a store where key k is absent, update(k, p1) followed by
\* update(k, p2) with dict arguments both succeed and leave under k the mapping
\* p1 overridden by p2 (their union when the fields are disjoint), a get(k)
\* that follows returns it, and no other key's value changes.
C22_UpdateAccumulates ==
    \A i \in 1..(Len(cx_log) - 1) :
        LET e1 == cx_log[i]
            e2 == cx_log[i + 1]
        IN C22_TwoUpdates(e1, e2) =>
             /\ e1.result = "ok" /\ e2.result = "ok"
             /\ C22_Value(e2.post, e1.key) = C22_Override(e1.val, e2.val)
             /\ \A k \in CtxKeys \ {e1.key} : C22_Value(e2.post, k) = C22_Value(e1.pre, k)
             /\ (i + 2 <= Len(cx_log) /\ cx_log[i + 2].op = "get" /\ cx_log[i + 2].key = e1.key)
                  => cx_log[i + 2].ret = C22_Override(e1.val, e2.val)

\* update(k, {a:1}), update(k, {b:2}) on the fresh store, then get(k) = {a:1, b:2}
C22_Witness ==
    /\ Len(cx_log) = 3
    /\ C22_TwoUpdates(cx_log[1], cx_log[2])
    /\ cx_log[1].val = Dict({<<"a", 1>>}) /\ cx_log[2].val = Dict({<<"b", 2>>})
    /\ cx_log[3].op = "get" /\ cx_log[3].key = cx_log[1].key
    /\ cx_log[3].ret = Dict({<<"a", 1>>, <<"b", 2>>})

C23_GetLeaving(c) == cx[c].pc = "exit" /\ cx[c].op = "get"

C23_Present(data, k) == \E i \in 1..Len(data) : data[i][1] = k

\* C23: for every store state, get(key, default) returns the stored value when
\* the key is present and default when it is absent, does not raise, and leaves
\* the keys, the values and updated_at as they were when it took the lock.
C23_GetIsPureRead ==
    \A c \in Coros :
        C23_GetLeaving(c) =>
            /\ cx[c].result = "value"
            /\ \A i \in 1..Len(cx[c].pre_data) :
                   cx[c].pre_data[i][1] = cx[c].key => cx[c].ret = cx[c].pre_data[i][2]
            /\ ~C23_Present(cx[c].pre_data, cx[c].key) => cx[c].ret = cx[c].val
            /\ ctx_data = cx[c].pre_data
            /\ ctx_updated_at = cx[c].pre_updated

\* a get of an absent key on a store that holds another key returned its default
C23_Witness ==
    \E c \in Coros :
        /\ C23_GetLeaving(c)
        /\ ctx_data # <<>>
        /\ ~C23_Present(ctx_data, cx[c].key)
        /\ cx[c].val = Dict({<<"a", 1>>})
        /\ cx[c].ret = Dict({<<"a", 1>>})

C24_Registered(n) == \E i \in 1..Len(reg.registered) : reg.registered[i].name = n

C24_Latest(n) ==
    reg.registered[CHOOSE i \in 1..Len(reg.registered) :
                      /\ reg.registered[i].name = n
                      /\ \A j \in (i + 1)..Len(reg.registered) : reg.registered[j].name # n]

C24_Entry(tools, n) ==
    IF \E i \in 1..Len(tools) : tools[i][1] = n
    THEN tools[CHOOSE i \in 1..Len(tools) : tools[i][1] = n][2]
    ELSE NoTool

\* the names registered so far, each once, in the order they first came
RECURSIVE C24_FirstNames(_, _)
C24_FirstNames(hist, seen) ==
    IF hist = <<>> THEN <<>>
    ELSE IF Head(hist).name \in seen THEN C24_FirstNames(Tail(hist), seen)
         ELSE <<Head(hist).name>> \o C24_FirstNames(Tail(hist), seen \cup {Head(hist).name})

C24_Names(tools) == [i \in 1..Len(tools) |-> tools[i][1]]

\* C24: after any sequence of register calls the registry holds under each
\* registered name the tool registered last under it, its names are the
\* registered names, each once, in the order of first registration, and a
\* register call changes the entry of no other name.
C24_LastWriterWins ==
    /\ [](/\ \A n \in ToolNames :
               C24_Registered(n) => C24_Entry(reg.tools, n) = C24_Latest(n)
          /\ C24_Names(reg.tools) = C24_FirstNames(reg.registered, {}))
    /\ [][\A tool \in ToolObjects :
            reg'.registered = Append(reg.registered, tool) =>
                /\ reg'.ret = <<"register", NoTool>>
                /\ \A n \in ToolNames \ {tool.name} :
                       C24_Entry(reg'.tools, n) = C24_Entry(reg.tools, n)]_vars

\* a name was registered, then another, then the first again with another tool
C24_Witness ==
    /\ Len(reg.registered) = 3
    /\ reg.registered[1].name = reg.registered[3].name
    /\ reg.registered[1].id # reg.registered[3].id
    /\ reg.registered[2].name # reg.registered[1].name
    /\ C24_Entry(reg.tools, reg.registered[1].name) = reg.registered[3]
    /\ C24_Names(reg.tools) = <<reg.registered[1].name, reg.registered[2].name>>

\* C25: get_tool returns None for a name that was never registered and leaves
\* the registry mapping as it was, whatever the name.
C25_GetToolIsPure ==
    /\ [](reg.ret[1] = "get_tool" =>
            /\ ~C24_Registered(reg.ret[2]) => reg.ret[3] = NoTool
            /\ C24_Registered(reg.ret[2]) => reg.ret[3] = C24_Latest(reg.ret[2]))
    /\ [][reg'.ret[1] = "get_tool" => reg'.tools = reg.tools]_vars

\* get_tool of a name never registered, on a registry that holds tools
C25_Witness ==
    /\ reg.tools # <<>>
    /\ reg.ret = <<"get_tool", "generate_report_html", NoTool>>

C26_Prefix(s, t) == Len(s) <= Len(t) /\ \A i \in 1..Len(s) : s[i] = t[i]

\* C26: in every step of the plugin each trace that exists stays and its span
\* list is an initial part of its span list afterwards, so spans are only ever
\* appended; get_trace creates no trace.
C26_TracesAppendOnly ==
    /\ [][\A tid \in DOMAIN obs.traces :
            /\ tid \in DOMAIN obs'.traces
            /\ C26_Prefix(obs.traces[tid], obs'.traces[tid])]_vars
    /\ [][ob_ret'[1] = "get_trace" => DOMAIN obs'.traces = DOMAIN obs.traces]_vars

\* a trace holds three spans and get_trace of another id returned nothing
C26_Witness ==
    /\ 1 \in DOMAIN obs.traces /\ Len(obs.traces[1]) = 3
    /\ 2 \notin DOMAIN obs.traces
    /\ ob_ret = <<"get_trace", 2, <<>>>>

C27_Fields == {"anomalies_found", "recommendations_generated", "max_severity"}

C27_Metric(o, f) ==
    CASE f = "anomalies_found" -> o.anomalies_found
      [] f = "recommendations_generated" -> o.recommendations_generated
      [] OTHER -> o.max_severity

\* C27: an after_agent_callback whose result carries a non-empty mapping sets
\* each of anomalies_found, recommendations_generated and max_severity that the
\* mapping holds to the mapping's value and keeps the others; with no data all
\* three keep their values.
C27_LastValueWins ==
    [][obs'.latencies = obs.latencies + 1 =>
         LET result == ob_ret'[2]
         IN \A f \in C27_Fields :
              IF result.data # {} /\ \E it \in result.data : it[1] = f
              THEN \E it \in result.data : it[1] = f /\ C27_Metric(obs', f) = it[2]
              ELSE C27_Metric(obs', f) = C27_Metric(obs, f)]_vars

\* three results in a row; the last one's count of 1 stands, not a sum, and
\* the recommendations of an earlier one are kept
C27_Witness ==
    /\ obs.latencies = 3
    /\ ob_ret = <<"after_agent_callback",
                  WithData({<<"anomalies_found", 1>>, <<"max_severity", HIGH>>})>>
    /\ obs.anomalies_found = 1
    /\ obs.max_severity = HIGH
    /\ obs.recommendations_generated = 3

C28_TooFew ==
    LET n == Cardinality({i \in 1..Len(det.data) : det.data[i].has})
    IN \/ det.method = "iqr" /\ n < 3
       \/ det.method = "zscore" /\ n < 2

\* C28 (as claimed): with fewer than 3 values for iqr, or fewer than 2 for
\* zscore, the result of detect_anomalies is a failure, never a success.
C28_InsufficientDataFails ==
    (det.pc = "done" /\ C28_TooFew) => det.result.status # "success"

\* C29 (as claimed): with a method other than iqr and zscore the result of
\* detect_anomalies is a failure, never a success.
C29_UnknownMethodFails ==
    (det.pc = "done" /\ det.method \notin {"iqr", "zscore"}) => det.result.status # "success"

\* C30 (as claimed): one tool instance sends at most max_requests requests to
\* the Google API, whatever the calls and whether or not the requests succeed.
C30_AtMostThreeRequests == mt.sent <= MtMaxRequests

\* a call that was asleep records its sample in this step
C31_RecordsAfterSleep(c) ==
    /\ rl[c].pc \in {"sleep_tok", "sleep_req"}
    /\ rl'[c].pc = "idle"
    /\ Len(rl_returned') = Len(rl_returned) + 1

\* C31 (as claimed): a call that was suspended appends its sample only when,
\* for the window evicted at the time of recording, current_tokens +
\* estimated_tokens <= max_tokens and current_requests < max_requests.
C31_RecheckBeforeRecord ==
    [][\A c \in Coros :
         C31_RecordsAfterSleep(c) =>
            LET tq == EvictTokens(token_usage, clock)
                rq == EvictRequests(request_times, clock)
            IN /\ CurrentTokens(tq) + rl[c].est <= max_tokens
               /\ Len(rq) < max_requests]_vars

\* C32 (as claimed): right after the eviction step of a call neither series
\* holds a sample more than 60 seconds older than the call's now.
C32_EvictionComplete ==
    [][rl_started' = rl_started + 1 =>
         /\ \A i \in 1..Len(token_usage') : token_usage'[i][1] >= clock - Window
         /\ \A i \in 1..Len(request_times') : request_times'[i] >= clock - Window]_vars

\* the samples a step took from the head of a series
C39_Dropped(q, q2, appended) == Len(q) + (IF appended THEN 1 ELSE 0) - Len(q2)

\* C39 (as claimed): a sample leaves token_usage or request_times only when
\* its timestamp is more than 60 seconds older than the now of the call that
\* removes it.
C39_RemovedOnlyByAge ==
    [][LET appended == Len(rl_returned') = Len(rl_returned) + 1
       IN /\ \A i \in 1..C39_Dropped(request_times, request_times', appended) :
                request_times[i] < clock - Window
          /\ \A i \in 1..C39_Dropped(token_usage, token_usage', appended) :
                token_usage[i][1] < clock - Window]_vars

C33_SpanOrder ==
    << <<"Coordinator", "start">>, <<"AnalystAgent", "start">>, <<"AnalystAgent", "end">>,
       <<"RecommendationAgent", "start">>, <<"RecommendationAgent", "end">>,
       <<"Coordinator", "end">> >>

C33_Place(span) == CHOOSE i \in 1..Len(C33_SpanOrder) : C33_SpanOrder[i] = span

\* C33: in the trace of every run that returned or raised, the first span is
\* Coordinator_start, the last is Coordinator_end, no span occurs twice, and the
\* spans of AnalystAgent and RecommendationAgent that occur lie between the two
\* in the order AnalystAgent_start, AnalystAgent_end, RecommendationAgent_start,
\* RecommendationAgent_end.
C33_SpansWellOrdered ==
    \A r \in TracedRuns :
        Finished(r) =>
            LET spans == obs.traces[r]
            IN /\ Len(spans) >= 2
               /\ spans[1] = <<"Coordinator", "start">>
               /\ spans[Len(spans)] = <<"Coordinator", "end">>
               /\ \A i \in 1..Len(spans) : \E k \in 1..Len(C33_SpanOrder) : C33_SpanOrder[k] = spans[i]
               /\ \A i \in 1..(Len(spans) - 1) : C33_Place(spans[i]) < C33_Place(spans[i + 1])

\* a run went through both sub-agents and its trace is the six spans in order
C33_Witness ==
    \E r \in TracedRuns : Finished(r) /\ obs.traces[r] = C33_SpanOrder

\* C38: on one CoordinatorAgent, after any number of runs, error_count <=
\* total_agent_calls, so that success_rate = 1 - error_count / max(1,
\* total_agent_calls) lies between 0 and 1.
C38_SuccessRateIsRate ==
    /\ Len(obs.errors) <= SumValues(obs.agent_calls)
    /\ 0 <= SuccessRate(obs).num
    /\ SuccessRate(obs).num <= SuccessRate(obs).den

\* two runs on one coordinator both failed: the rate is 0, its lowest value
C38_Witness ==
    /\ co_pc = "idle" /\ co_run = 2
    /\ Len(obs.errors) = 2
    /\ SumValues(obs.agent_calls) = 2
    /\ SuccessRate(obs).num = 0

C35_ReadOnly ==
    {"after_tool_callback", "get_trace", "get_metrics_summary",
     "export_traces_json", "export_metrics_json"}

\* C35: no plugin operation lowers a per-agent call count, a per-tool call
\* count, the number of errors or the number of latency samples;
\* before_tool_callback raises the counter of its tool by 1 and changes nothing
\* else; after_tool_callback, get_trace, get_metrics_summary and the exports
\* change no counter and no trace.
C35_CountersMonotonic ==
    [][/\ \A a \in DOMAIN obs.agent_calls :
            a \in DOMAIN obs'.agent_calls /\ obs'.agent_calls[a] >= obs.agent_calls[a]
       /\ \A t \in DOMAIN obs.tool_calls :
            t \in DOMAIN obs'.tool_calls /\ obs'.tool_calls[t] >= obs.tool_calls[t]
       /\ Len(obs'.errors) >= Len(obs.errors)
       /\ obs'.latencies >= obs.latencies
       /\ ob_ret'[1] = "before_tool_callback" =>
            /\ obs'.tool_calls[ob_ret'[2]] = obs.tool_calls[ob_ret'[2]] + 1
            /\ \A t \in DOMAIN obs.tool_calls \ {ob_ret'[2]} :
                   obs'.tool_calls[t] = obs.tool_calls[t]
            /\ obs'.agent_calls = obs.agent_calls
            /\ obs'.errors = obs.errors
            /\ obs'.latencies = obs.latencies
            /\ obs'.traces = obs.traces
       /\ ob_ret'[1] \in C35_ReadOnly => obs' = obs]_vars

\* a tool was counted twice, another tool not at all, and after_tool_callback
\* has just run
C35_Witness ==
    /\ obs.tool_calls["detect_anomalies"] = 2
    /\ obs.tool_calls["load_csv_data"] = 0
    /\ Len(obs.errors) = 1
    /\ ob_ret = <<"after_tool_callback", "detect_anomalies">>

C37_Responses ==
    Cardinality({i \in 1..Len(gem.contents) : gem.contents[i] = "function_response"})

\* C37 (as claimed): within one call the function_response entries in contents
\* are as many as the tools executed so far, the result of the last tool
\* being appended at the start of the next iteration.
C37_EachToolResultOnce ==
    gem.unrecorded = 0 =>
        /\ C37_Responses <= ToolRounds(gem.attempts)
        /\ C37_Responses >= ToolRounds(gem.attempts) - 1

\* C36 (as claimed): a call that has entered its loop returns or raises.
C36_CallTerminates == (gem.pc = "loop") ~> (gem.pc = "done")

C34_Order ==
    << <<"agent", "DataLoader">>, <<"ctx", "data_load_result">>,
       <<"agent", "Analyst">>, <<"ctx", "analysis_result">>,
       <<"agent", "Recommender">>, <<"ctx", "recommendation_result">>,
       <<"agent", "Critic">>, <<"ctx", "critique_result">>,
       <<"agent", "Coordinator">>, <<"tool", "report">>, <<"ctx", "final_summary">> >>

\* C34: what a run of execute_pipeline does is an initial part of DataLoader,
\* data_load_result, Analyst, analysis_result, Recommender,
\* recommendation_result, Critic, critique_result, Coordinator summary, report
\* generation, final_summary; a phase that raises is the last thing the run
\* does, and only a run that is still going or has raised stops short.
C34_PipelineOrder ==
    \A r \in 1..lp.run :
        LET log == lp.log[r]
        IN /\ Len(log) <= Len(C34_Order)
           /\ \A i \in 1..Len(log) : <<log[i].kind, log[i].name>> = C34_Order[i]
           /\ \A i \in 1..(Len(log) - 1) : log[i].ok
           /\ lp.ret[r] = "raised" <=> (log # <<>> /\ ~log[Len(log)].ok)
           /\ lp.ret[r] = "final_summary" <=> Len(log) = Len(C34_Order)

\* a second run raised in the Critic after a first run that went through
C34_Witness ==
    /\ lp.run = 2 /\ lp.pc = "idle"
    /\ lp.ret = <<"final_summary", "raised">>
    /\ Len(lp.log[2]) = 7
    /\ lp.log[2][7] = LpEvent("agent", "Critic", "raise")

====
